---------------------------- MODULE Spec2Model ----------------------------
(***************************************************************************)
(* A model of the p12 crate (src/src/lib.rs): the PKCS#12 object model,    *)
(* its DER writer and BER parser, the PKCS12-SHA key derivation, the       *)
(* password based encryption engines, the PFX builder and the accessors.   *)
(*                                                                         *)
(* Representation.  Every value is a tuple whose first element is a string *)
(* naming its constructor, so that two values of different shape differ in *)
(* their first element.                                                    *)
(*   byte strings (Vec<u8>, &[u8]):                                        *)
(*     <<"raw", s>>                 the literal bytes s (a sequence 0..255)*)
(*     <<"der", n>>                 the DER encoding of the element n      *)
(*     <<"sha", h, b>>              digest of b                            *)
(*     <<"hmac", h, k, d>>          HMAC tag                               *)
(*     <<"p12kdf", h, i, r, id, n>> output of the PKCS12-SHA KDF           *)
(*     <<"pbkdf2", h, k, s, c, n>>  output of PBKDF2                       *)
(*     <<"enc", c, k, iv, pt>>      CBC/PKCS#7 encryption of pt            *)
(*     <<"junk", c, k, iv, ct>>     what a wrong key decrypts ct to        *)
(*   ASN.1 elements: <<"SEQ", items>>, <<"SET", items>>, <<"OID", name>>,  *)
(*     <<"OCT", b>>, <<"INT", k>>, <<"NULL">>, <<"CTX0", n>> (explicit     *)
(*     [0]), <<"ICTX0", b>> (implicit [0] OCTET STRING), <<"BMP", units>>, *)
(*     <<"IA5", chars>>                                                    *)
(*   Rust values: Option as <<"None">> / <<"Some", v>>, Result as          *)
(*     <<"Ok", v>> / <<"Err", kind>>, an abort as <<"Panic", why>>, enum   *)
(*     variants and structs as <<"Variant", fields...>>.                   *)
(* The hash, MAC and cipher primitives are the crate's external            *)
(* collaborators; they are modelled as free constructors (distinct inputs  *)
(* give distinct outputs), except for what the code relies on or exposes:  *)
(* output lengths, HMAC's zero padding of short keys, PKCS#7 padding       *)
(* failure, and the cyclic padding the KDF applies to salt and password.   *)
(***************************************************************************)
EXTENDS Integers, Sequences, FiniteSets, TLC

\* ------------------------------------------------------------ build profile
\* padLuck: whether a ciphertext decrypted with a wrong key happens to end in
\*          valid PKCS#7 padding (it does for about one key in 256)
\* debug_assertions: whether debug_assert! is compiled in (cfg(debug_assertions))
VARIABLES padLuck, debug_assertions

\* Apply(f, a): the library function named f applied to the arguments a. The
\* functions of the library call one another through this one table, which
\* is defined after the last of them.
RECURSIVE Apply(_, _)

\* ------------------------------------------------------------------ bounds
\* longest password (in characters) a PFX is built with
MaxPwLen == 1
\* longest password (in characters) an accessor is called with
MaxProbeLen == 2
\* longest CA list given to new_with_cas
MaxCas == 2
\* the first positions of the auth_safe content a tampering changes (the last
\* position is always tried)
MaxTamperPos == 1

\* ------------------------------------------------------- Rust value shells
None == <<"None">>
Some(v) == <<"Some", v>>
Ok(v) == <<"Ok", v>>
Err(kind) == <<"Err", kind>>
Panic(why) == <<"Panic", why>>
IsNone(o) == o[1] = "None"
IsSome(o) == o[1] = "Some"
IsOk(r) == r[1] = "Ok"
IsErr(r) == r[1] = "Err"
IsPanic(r) == r[1] = "Panic"
\* a bool returned by a call that may also abort
Bool(b) == <<"Bool", b>>
\* ASN1Error::new(ASN1ErrorKind::Invalid)
Invalid == Err("Invalid")

Raw(s) == <<"raw", s>>
Der(n) == <<"der", n>>

\* sequence helpers
RECURSIVE Concat(_)
Concat(ss) == IF ss = <<>> THEN <<>> ELSE Head(ss) \o Concat(Tail(ss))
\* s.iter().cycle().take(n)
\* a sequence written as a function, evaluated once into a tuple
Strict(s) == s \o <<>>
CycleTake(s, n) == IF Len(s) = 0 THEN <<>> ELSE Strict([k \in 1..n |-> s[((k - 1) % Len(s)) + 1]])
SeqsUpTo(S, n) == UNION {[1..k -> S] : k \in 0..n}

\* --------------------------------------------------------------- constants
ITERATIONS == 2048
\* block length v/8 of SHA-1 and SHA-256, in bytes
V == 64
\* const U in pbepkcs12sha: 160/8 whatever the digest
U == 20

\* ------------------------------------------------------- password encoding
\* &str is a sequence of Unicode scalar values; as_bytes() is its UTF-8 form.
Utf8Char(c) ==
    IF c < 128 THEN <<c>>
    ELSE IF c < 2048 THEN <<192 + (c \div 64), 128 + (c % 64)>>
    ELSE IF c < 65536 THEN <<224 + (c \div 4096), 128 + ((c \div 64) % 64), 128 + (c % 64)>>
    ELSE <<240 + (c \div 262144), 128 + ((c \div 4096) % 64),
           128 + ((c \div 64) % 64), 128 + (c % 64)>>
as_bytes(s) == Raw(Concat(Strict([k \in 1..Len(s) |-> Utf8Char(s[k])])))

\* str::encode_utf16
Utf16Char(c) ==
    IF c < 65536 THEN <<c>>
    ELSE <<55296 + ((c - 65536) \div 1024), 56320 + ((c - 65536) % 1024)>>
encode_utf16(s) == Concat(Strict([k \in 1..Len(s) |-> Utf16Char(s[k])]))

\* std::str::from_utf8: Ok(the string) or Err on a malformed sequence
IsCont(b) == b >= 128 /\ b < 192
from_utf8_seq(b) ==
    IF b = <<>> THEN Ok(<<>>)
    ELSE LET b1 == b[1]
             n == IF b1 < 128 THEN 1
                  ELSE IF b1 >= 194 /\ b1 < 224 THEN 2
                  ELSE IF b1 >= 224 /\ b1 < 240 THEN 3
                  ELSE IF b1 >= 240 /\ b1 < 245 THEN 4 ELSE 0
         IN IF n = 0 \/ Len(b) < n \/ \E k \in 2..n : ~IsCont(b[k]) THEN Err("Utf8Error")
            ELSE LET c == CASE n = 1 -> b1
                            [] n = 2 -> (b1 - 192) * 64 + (b[2] - 128)
                            [] n = 3 -> (b1 - 224) * 4096 + (b[2] - 128) * 64 + (b[3] - 128)
                            [] n = 4 -> (b1 - 240) * 262144 + (b[2] - 128) * 4096
                                        + (b[3] - 128) * 64 + (b[4] - 128)
                     bad == \/ (n = 3 /\ (c < 2048 \/ (c >= 55296 /\ c < 57344)))
                            \/ (n = 4 /\ (c < 65536 \/ c > 1114111))
                     rest == Apply("from_utf8_seq", <<SubSeq(b, n + 1, Len(b))>>)
                 IN IF bad THEN Err("Utf8Error")
                    ELSE IF IsErr(rest) THEN rest ELSE Ok(<<c>> \o rest[2])
from_utf8(bytes) == IF bytes[1] = "raw" THEN Apply("from_utf8_seq", <<bytes[2]>>) ELSE Err("Utf8Error")

\* (variant) no terminator after a string that already ends in U+0000
bmp_string_lazy(s) ==
    LET utf16 == encode_utf16(s)
        bytes == Concat(Strict([k \in 1..Len(utf16) |-> <<utf16[k] \div 256, utf16[k] % 256>>]))
    IN Raw(IF s # <<>> /\ s[Len(s)] = 0 THEN bytes ELSE bytes \o <<0, 0>>)
\* fn bmp_string: UTF-16 big endian, then two zero bytes
bmp_string(s) ==
    LET utf16 == encode_utf16(s)
    IN Raw(Concat(Strict([k \in 1..Len(utf16) |-> <<utf16[k] \div 256, utf16[k] % 256>>])) \o <<0, 0>>)


\* --------------------------------------------------------------- ASN.1 OIDs
\* lazy_static OID table: name |-> arcs
OidArcs(name) ==
    CASE name = "OID_DATA_CONTENT_TYPE" -> <<1, 2, 840, 113549, 1, 7, 1>>
      [] name = "OID_ENCRYPTED_DATA_CONTENT_TYPE" -> <<1, 2, 840, 113549, 1, 7, 6>>
      [] name = "OID_FRIENDLY_NAME" -> <<1, 2, 840, 113549, 1, 9, 20>>
      [] name = "OID_LOCAL_KEY_ID" -> <<1, 2, 840, 113549, 1, 9, 21>>
      [] name = "OID_CERT_TYPE_X509_CERTIFICATE" -> <<1, 2, 840, 113549, 1, 9, 22, 1>>
      [] name = "OID_CERT_TYPE_SDSI_CERTIFICATE" -> <<1, 2, 840, 113549, 1, 9, 22, 2>>
      [] name = "OID_PBE_WITH_SHA_AND3_KEY_TRIPLE_DESCBC" -> <<1, 2, 840, 113549, 1, 12, 1, 3>>
      [] name = "OID_SHA1" -> <<1, 3, 14, 3, 2, 26>>
      [] name = "OID_HMAC_WITH_SHA1" -> <<1, 2, 840, 113549, 2>>
      [] name = "OID_HMAC_WITH_SHA256" -> <<1, 2, 840, 113549, 2, 9>>
      [] name = "OID_PBES2" -> <<1, 2, 840, 113549, 1, 5, 13>>
      [] name = "OID_PBKDF2" -> <<1, 2, 840, 113549, 1, 5, 12>>
      [] name = "OID_SHA2" -> <<2, 16, 840, 1, 101, 3, 4, 2, 1>>
      [] name = "OID_PBE_WITH_SHA1_AND40_BIT_RC2_CBC" -> <<1, 2, 840, 113549, 1, 12, 1, 6>>
      [] name = "OID_KEY_BAG" -> <<1, 2, 840, 113549, 1, 12, 10, 1, 1>>
      [] name = "OID_AES_CBC_PAD" -> <<2, 16, 840, 1, 101, 3, 4, 1, 42>>
      [] name = "OID_PKCS8_SHROUDED_KEY_BAG" -> <<1, 2, 840, 113549, 1, 12, 10, 1, 2>>
      [] name = "OID_CERT_BAG" -> <<1, 2, 840, 113549, 1, 12, 10, 1, 3>>
      [] name = "OID_CRL_BAG" -> <<1, 2, 840, 113549, 1, 12, 10, 1, 4>>
      [] name = "OID_SECRET_BAG" -> <<1, 2, 840, 113549, 1, 12, 10, 1, 5>>
      [] name = "OID_SAFE_CONTENTS_BAG" -> <<1, 2, 840, 113549, 1, 12, 10, 1, 6>>
      \* OIDs the library does not know (inputs of the parser)
      [] name = "OID_SIGNED_DATA" -> <<1, 2, 840, 113549, 1, 7, 2>>
      [] name = "OID_MD5" -> <<1, 2, 840, 113549, 2, 5>>
      [] name = "OID_PKCS9_OTHER" -> <<1, 2, 840, 113549, 1, 9, 3>>

\* fn sha<D>
sha(D, bytes) == <<"sha", D, bytes>>
DigestLen(D) == IF D = "Sha1" THEN 20 ELSE 32

\* block sizes of the cipher crates (aes, des::TdesEde3, rc2::Rc2)
BlockSize(cipher) == IF cipher \in {"Aes128", "Aes192", "Aes256"} THEN 16 ELSE 8

\* ------------------------------------------------ lengths and DER encoding
Base128(n) == IF n < 128 THEN <<n>>
              ELSE IF n < 16384 THEN <<128 + (n \div 128), n % 128>>
              ELSE <<128 + (n \div 16384), 128 + ((n \div 128) % 128), n % 128>>
OidBytes(name) ==
    LET a == Apply("OidArcs", <<name>>)
    IN <<40 * a[1] + a[2]>> \o Concat(Strict([k \in 1..(Len(a) - 2) |-> Base128(a[k + 2])]))
\* the content octets of a non-negative INTEGER
IntBytes(n) == IF n < 128 THEN <<n>>
               ELSE IF n < 32768 THEN <<n \div 256, n % 256>>
               ELSE <<n \div 65536, (n \div 256) % 256, n % 256>>
LenBytes(n) == IF n < 128 THEN <<n>>
               ELSE IF n < 256 THEN <<129, n>>
               ELSE <<130, n \div 256, n % 256>>
TagByte(t) ==
    CASE t = "SEQ" -> 48 [] t = "SET" -> 49 [] t = "OID" -> 6 [] t = "OCT" -> 4
      [] t = "INT" -> 2 [] t = "NULL" -> 5 [] t = "CTX0" -> 160 [] t = "ICTX0" -> 128
      [] t = "BMP" -> 30 [] t = "IA5" -> 22

RECURSIVE BytesOf(_), BLen(_)
\* the length of a byte string
BLen(b) ==
    CASE b[1] = "raw" -> Len(b[2])
      [] b[1] = "der" -> Len(Apply("DerBytes", <<b[2]>>))
      [] b[1] = "sha" -> DigestLen(b[2])
      [] b[1] = "hmac" -> DigestLen(b[2])
      [] b[1] = "p12kdf" -> b[6]
      [] b[1] = "pbkdf2" -> b[6]
      [] b[1] = "enc" -> BlockSize(b[2]) * ((BLen(b[5]) \div BlockSize(b[2])) + 1)
      [] b[1] = "junk" -> BLen(b[5]) - 1
      [] b[1] = "xor" -> BLen(b[2])
\* the bytes of a byte string; the value of a digest, key or ciphertext is
\* not known to the model: only its length is, and zeros stand for it
BytesOf(b) ==
    CASE b[1] = "raw" -> b[2]
      [] b[1] = "der" -> Apply("DerBytes", <<b[2]>>)
      [] OTHER -> Strict([k \in 1..BLen(b) |-> 0])
\* the DER encoding of an element (tag, definite minimal length, content)
DerBytes(n) ==
    LET content ==
          CASE n[1] \in {"SEQ", "SET"} -> Concat(Strict([k \in 1..Len(n[2]) |-> Apply("DerBytes", <<n[2][k]>>)]))
            [] n[1] = "OID" -> OidBytes(n[2])
            [] n[1] \in {"OCT", "ICTX0"} -> BytesOf(n[2])
            [] n[1] = "INT" -> IntBytes(n[2])
            [] n[1] = "NULL" -> <<>>
            [] n[1] = "CTX0" -> Apply("DerBytes", <<n[2]>>)
            [] n[1] = "BMP" -> Concat(Strict([k \in 1..Len(n[2]) |-> <<n[2][k] \div 256, n[2][k] % 256>>]))
            [] n[1] = "IA5" -> n[2]
    IN <<TagByte(n[1])>> \o LenBytes(Len(content)) \o content

\* Vec<u8> ordering (lexicographic), as bufs.sort() of the DER writer uses it
RECURSIVE LexLess(_, _)
LexLess(a, b) ==
    IF b = <<>> THEN FALSE
    ELSE IF a = <<>> THEN TRUE
    ELSE IF a[1] # b[1] THEN a[1] < b[1]
    ELSE LexLess(Tail(a), Tail(b))
\* stable insertion of x into the sorted list s
RECURSIVE InsertSorted(_, _)
InsertSorted(s, x) ==
    IF s = <<>> THEN <<x>>
    ELSE IF LexLess(Apply("DerBytes", <<x>>), Apply("DerBytes", <<s[Len(s)]>>)) 
         THEN InsertSorted(SubSeq(s, 1, Len(s) - 1), x) \o <<s[Len(s)]>>
         ELSE s \o <<x>>
RECURSIVE SortDer(_)
SortDer(items) ==
    IF items = <<>> THEN <<>>
    ELSE InsertSorted(SortDer(SubSeq(items, 1, Len(items) - 1)), items[Len(items)])

\* ----------------------------------------------------- yasna's DER writer
write_sequence(items) == <<"SEQ", items>>
write_sequence_of(items) == <<"SEQ", items>>
\* DERWriter::write_set_of sorts the encoded elements
write_set_of(items) == <<"SET", SortDer(items)>>
write_oid(name) == <<"OID", name>>
write_bytes(b) == <<"OCT", b>>
write_int(k) == <<"INT", k>>
write_null == <<"NULL">>
write_tagged(n) == <<"CTX0", n>>
write_tagged_implicit_bytes(b) == <<"ICTX0", b>>
\* DERWriter::write_der copies an encoded element into the output
\* (b is the encoding of one element: what read_der returned)
write_der(b) == b[2]
write_bmp_string(s) == <<"BMP", encode_utf16(s)>>
write_ia5_string(s) == <<"IA5", s>>
\* yasna::construct_der
construct_der(n) == Der(n)


\* ------------------------------------------------------------- primitives
\* HMAC pads a key shorter than the block with zero bytes (and hashes a longer
\* one), so keys that differ only in trailing zero bytes are the same key.
RECURSIVE StripZeros(_)
StripZeros(s) == IF s # <<>> /\ s[Len(s)] = 0 THEN StripZeros(SubSeq(s, 1, Len(s) - 1)) ELSE s
HmacKey(D, key) ==
    IF key[1] = "raw"
    THEN (IF Len(key[2]) > V THEN sha(D, key) ELSE Raw(StripZeros(key[2])))
    ELSE key
\* (variant) a tag that does not depend on the data
hmac_nodata(D, key, data) == <<"hmac", D, HmacKey(D, key), Raw(<<>>)>>
\* Hmac::<D>::new_from_slice(key), update(data), finalize()
hmac(D, key, data) == <<"hmac", D, HmacKey(D, key), data>>
\* Mac::verify_slice: the whole tag must equal the given digest
verify_slice(tag, digest) == tag = digest
\* pbkdf2::pbkdf2_hmac::<D>(password, salt, rounds, &mut key)
pbkdf2_hmac(D, password, salt, rounds, keylen) ==
    <<"pbkdf2", D, HmacKey(D, password), salt, rounds, keylen>>
\* cbc::Encryptor::encrypt_padded_vec_mut::<Pkcs7>
encrypt_padded(cipher, key, iv, data) == <<"enc", cipher, key, iv, data>>
\* cbc::Decryptor::decrypt_padded_vec_mut::<Pkcs7>: Ok(plaintext) or Err(UnpadError)
decrypt_padded(cipher, key, iv, ct) ==
    IF BLen(ct) % BlockSize(cipher) # 0 \/ BLen(ct) = 0 THEN Err("UnpadError")
    ELSE IF ct[1] = "enc" /\ ct[2] = cipher /\ ct[3] = key /\ ct[4] = iv THEN Ok(ct[5])
    ELSE IF ct[1] = "enc" /\ ct[2] = cipher /\ ct[3] = key /\ BLen(ct) > BlockSize(cipher)
         THEN Ok(<<"junk", cipher, key, iv, ct>>)  \* a wrong IV garbles the first block only
    ELSE IF padLuck THEN Ok(<<"junk", cipher, key, iv, ct>>)
    ELSE Err("UnpadError")

\* ------------------------------------------------------- PKCS12-SHA KDF
get_len(s) == V * ((s + V - 1) \div V)
\* fn pbepkcs12sha<D>: I = S || P is built as the code builds it; the c rounds
\* of hashing and of adding B + 1 to the blocks of I are a function of
\* (D, I, iterations, id, size) alone and are kept as one term.
pbepkcs12sha(D, pass, salt, iterations, id, size) ==
    LET s == CycleTake(BytesOf(salt), get_len(BLen(salt)))
        p == CycleTake(BytesOf(pass), get_len(BLen(pass)))
        i == s \o p
    IN <<"p12kdf", D, i, iterations, id, size>>

\* fn pbe_with_sha1_and40_bit_rc2_cbc (decrypt)
pbe_with_sha1_and40_bit_rc2_cbc(data, password, salt, iterations) ==
    LET dk == Apply("pbepkcs12sha", <<"Sha1", password, salt, iterations, 1, 5>>)
        iv == Apply("pbepkcs12sha", <<"Sha1", password, salt, iterations, 2, 8>>)
        r == Apply("decrypt_padded", <<"Rc2", dk, iv, data>>)
    IN IF IsOk(r) THEN Some(r[2]) ELSE None
\* fn pbe_with_sha_and40_bit_rc2_cbc_encrypt<D>
pbe_with_sha_and40_bit_rc2_cbc_encrypt(D, data, password, salt, iterations) ==
    LET dk == Apply("pbepkcs12sha", <<D, password, salt, iterations, 1, 5>>)
        iv == Apply("pbepkcs12sha", <<D, password, salt, iterations, 2, 8>>)
    IN Some(encrypt_padded("Rc2", dk, iv, data))
\* fn pbe_with_sha_and3_key_triple_des_cbc (decrypt)
pbe_with_sha_and3_key_triple_des_cbc(data, password, salt, iterations) ==
    LET dk == Apply("pbepkcs12sha", <<"Sha1", password, salt, iterations, 1, 24>>)
        iv == Apply("pbepkcs12sha", <<"Sha1", password, salt, iterations, 2, 8>>)
        r == Apply("decrypt_padded", <<"TdesEde3", dk, iv, data>>)
    IN IF IsOk(r) THEN Some(r[2]) ELSE None
\* fn pbe_with_sha_and3_key_triple_des_cbc_encrypt
pbe_with_sha_and3_key_triple_des_cbc_encrypt(data, password, salt, iterations) ==
    LET dk == Apply("pbepkcs12sha", <<"Sha1", password, salt, iterations, 1, 24>>)
        iv == Apply("pbepkcs12sha", <<"Sha1", password, salt, iterations, 2, 8>>)
    IN Some(encrypt_padded("TdesEde3", dk, iv, data))


\* ----------------------------------------------------- yasna's BER reader
\* BERReader::read_oid, read_bytes, read_null, read_u8/u32/u64, read_der
read_oid(n) == IF n[1] = "OID" THEN Ok(n[2]) ELSE Invalid
read_bytes(n) == IF n[1] = "OCT" THEN Ok(n[2]) ELSE Invalid
read_uint(n, max) ==
    IF n[1] # "INT" THEN Invalid
    ELSE IF n[2] < 0 \/ n[2] > max THEN Err("IntegerOverflow") ELSE Ok(n[2])
read_u8(n) == read_uint(n, 255)
\* every integer an encoding of this model holds is below 2^31, so the upper
\* limits of u32 and u64 are never exceeded: only the sign is checked
read_u32(n) == read_uint(n, 2147483647)
read_u64(n) == read_uint(n, 2147483647)
\* `x as u32` of a u64: the identity on the integers below 2^31
as_u32(x) == x
read_der(n) == Ok(Der(n))
\* read_sequence's end check: elements the callback left unread are an error
Finish(res, leftover) ==
    IF ~IsOk(res) THEN res ELSE IF leftover # <<>> THEN Err("Extra") ELSE res
\* String::from_utf16 of read_bmp_string: a lone surrogate is an error
RECURSIVE from_utf16(_)
from_utf16(u) ==
    IF u = <<>> THEN Ok(<<>>)
    ELSE IF u[1] < 55296 \/ u[1] >= 57344
         THEN LET rest == from_utf16(Tail(u))
              IN IF IsErr(rest) THEN rest ELSE Ok(<<u[1]>> \o rest[2])
    ELSE IF u[1] < 56320 /\ Len(u) >= 2 /\ u[2] >= 56320 /\ u[2] < 57344
         THEN LET rest == from_utf16(SubSeq(u, 3, Len(u)))
              IN IF IsErr(rest) THEN rest
                 ELSE Ok(<<65536 + (u[1] - 55296) * 1024 + (u[2] - 56320)>> \o rest[2])
    ELSE Invalid
read_bmp_string(n) == IF n[1] = "BMP" THEN from_utf16(n[2]) ELSE Invalid
read_ia5_string(n) == IF n[1] = "IA5" THEN Ok(n[2]) ELSE Invalid

\* ------------------------------------------------------ Pkcs12PbeParams
Pkcs12PbeParams_parse(n) ==
    IF n[1] # "SEQ" THEN Invalid
    ELSE LET it == n[2]
         IN IF Len(it) < 1 THEN Err("Eof")
            ELSE LET salt == Apply("read_bytes", <<it[1]>>)
                 IN IF IsErr(salt) THEN salt
                    ELSE IF Len(it) < 2 THEN Err("Eof")
                    ELSE LET iterations == read_u64(it[2])
                         IN IF IsErr(iterations) THEN iterations
                            ELSE Finish(Ok([salt |-> salt[2], iterations |-> iterations[2]]),
                                        SubSeq(it, 3, Len(it)))
Pkcs12PbeParams_write(p) ==
    write_sequence(<<write_bytes(p.salt), write_int(p.iterations)>>)

\* --------------------------------------------------- AlgorithmIdentifier
Sha1 == <<"Sha1">>
Sha2 == <<"Sha2">>
HmacWithSha1(params) == <<"HmacWithSha1", params>>
HmacWithSha256(params) == <<"HmacWithSha256", params>>
PbewithSHAAnd40BitRC2CBC(params) == <<"PbewithSHAAnd40BitRC2CBC", params>>
PbeWithSHAAnd3KeyTripleDESCBC(params) == <<"PbeWithSHAAnd3KeyTripleDESCBC", params>>
Pbes2(params) == <<"Pbes2", params>>
Pbkdf2Alg(params) == <<"Pbkdf2", params>>
AesCbcPad(iv) == <<"AesCbcPad", iv>>
OtherAlg(oid, params) == <<"OtherAlg", [algorithm_type |-> oid, params |-> params]>>
Specified(salt) == <<"Specified", salt>>
OtherSource(alg) == <<"OtherSource", alg>>

\* Pbkdf2Salt::write
Pbkdf2Salt_write(salt) ==
    IF salt[1] = "Specified" THEN write_bytes(salt[2]) ELSE Apply("AlgorithmIdentifier_write", <<salt[2]>>)
\* Pbkdf2Params::write
Pbkdf2Params_write(p) ==
    write_sequence(<<Pbkdf2Salt_write(p.salt), write_int(p.iteration_count)>>
                   \o (IF IsSome(p.key_length) THEN <<write_int(p.key_length[2])>> ELSE <<>>)
                   \o <<Apply("AlgorithmIdentifier_write", <<p.prf>>)>>)
\* Pkcs12Pbes2Params::write
Pkcs12Pbes2Params_write(p) ==
    write_sequence(<<Apply("AlgorithmIdentifier_write", <<p.key_derivation_function>>),
                     Apply("AlgorithmIdentifier_write", <<p.encryption_scheme>>)>>)
\* the parameters write emits for HmacWithSha1/HmacWithSha256: w.next().write_bytes(r)
HmacParams_write(r) == IF IsSome(r) THEN <<write_bytes(r[2])>> ELSE <<>>
\* AlgorithmIdentifier::write
AlgorithmIdentifier_write(a) ==
    write_sequence(
      CASE a[1] = "Sha1" -> <<write_oid("OID_SHA1"), write_null>>
        [] a[1] = "Sha2" -> <<write_oid("OID_SHA2"), write_null>>
        [] a[1] = "PbewithSHAAnd40BitRC2CBC" ->
             <<write_oid("OID_PBE_WITH_SHA1_AND40_BIT_RC2_CBC"), Pkcs12PbeParams_write(a[2])>>
        [] a[1] = "PbeWithSHAAnd3KeyTripleDESCBC" ->
             <<write_oid("OID_PBE_WITH_SHA_AND3_KEY_TRIPLE_DESCBC"), Pkcs12PbeParams_write(a[2])>>
        [] a[1] = "Pbes2" -> <<write_oid("OID_PBES2"), Pkcs12Pbes2Params_write(a[2])>>
        [] a[1] = "OtherAlg" ->
             <<write_oid(a[2].algorithm_type)>>
             \o (IF IsSome(a[2].params) THEN <<write_der(a[2].params[2])>> ELSE <<>>)
        [] a[1] = "AesCbcPad" -> <<write_oid("OID_AES_CBC_PAD"), write_bytes(a[2])>>
        [] a[1] = "HmacWithSha1" -> <<write_oid("OID_HMAC_WITH_SHA1")>> \o HmacParams_write(a[2])
        [] a[1] = "HmacWithSha256" -> <<write_oid("OID_HMAC_WITH_SHA256")>> \o HmacParams_write(a[2])
        [] a[1] = "Pbkdf2" -> <<write_oid("OID_PBKDF2"), Pbkdf2Params_write(a[2])>>)

\* Pbkdf2Salt::parse: an OCTET STRING is the salt, anything else an algorithm
Pbkdf2Salt_parse(n) ==
    IF n[1] = "OCT" THEN Ok(Specified(n[2]))
    ELSE LET src == Apply("AlgorithmIdentifier_parse", <<n>>)
         IN IF IsErr(src) THEN src ELSE Ok(OtherSource(src[2]))
\* Pbkdf2Params::parse
Pbkdf2Params_parse(n) ==
    IF n[1] # "SEQ" THEN Invalid
    ELSE LET it == n[2]
         IN IF Len(it) < 1 THEN Err("Eof")
            ELSE LET salt == Pbkdf2Salt_parse(it[1])
                 IN IF IsErr(salt) THEN salt
                    ELSE IF Len(it) < 2 THEN Err("Eof")
                    ELSE LET iteration_count == read_u64(it[2])
                             r3 == SubSeq(it, 3, Len(it))
                             \* read_optional(|r| r.read_u64())
                             hasLen == r3 # <<>> /\ r3[1][1] = "INT"
                             key_length == IF hasLen THEN read_u64(r3[1]) ELSE Ok(0)
                             r4 == IF hasLen THEN Tail(r3) ELSE r3
                             \* read_default(HmacWithSha1(None), AlgorithmIdentifier::parse)
                             hasPrf == r4 # <<>> /\ r4[1][1] = "SEQ"
                             prf == IF hasPrf THEN Apply("AlgorithmIdentifier_parse", <<r4[1]>>)
                                    ELSE Ok(HmacWithSha1(None))
                             r5 == IF hasPrf THEN Tail(r4) ELSE r4
                         IN IF IsErr(iteration_count) THEN iteration_count
                            ELSE IF IsErr(key_length) THEN key_length
                            ELSE IF IsErr(prf) THEN prf
                            ELSE Finish(Ok([salt |-> salt[2],
                                            iteration_count |-> iteration_count[2],
                                            key_length |-> IF hasLen THEN Some(key_length[2]) ELSE None,
                                            prf |-> prf[2]]), r5)
\* Pkcs12Pbes2Params::parse
Pkcs12Pbes2Params_parse(n) ==
    IF n[1] # "SEQ" THEN Invalid
    ELSE LET it == n[2]
         IN IF Len(it) < 1 THEN Err("Eof")
            ELSE LET kdf == Apply("AlgorithmIdentifier_parse", <<it[1]>>)
                 IN IF IsErr(kdf) THEN kdf
                    ELSE IF Len(it) < 2 THEN Err("Eof")
                    ELSE LET scheme == Apply("AlgorithmIdentifier_parse", <<it[2]>>)
                         IN IF IsErr(scheme) THEN scheme
                            ELSE Finish(Ok([key_derivation_function |-> kdf[2],
                                            encryption_scheme |-> scheme[2]]),
                                        SubSeq(it, 3, Len(it)))
\* r.read_optional(|r| r.read_der()): the next element, if there is one
OptionalDer(rest) == IF rest = <<>> THEN None ELSE Some(Der(rest[1]))
\* one parameter element parsed by f (r.next() then f), then the end check
OneParam(rest, res) == IF rest = <<>> THEN Err("Eof") ELSE Finish(res, Tail(rest))
\* AlgorithmIdentifier::parse
AlgorithmIdentifier_parse(n) ==
    IF n[1] # "SEQ" THEN Invalid
    ELSE IF n[2] = <<>> THEN Err("Eof")
    ELSE LET algorithm_type == read_oid(n[2][1])
             rest == Tail(n[2])
             oid == algorithm_type[2]
             \* r.read_optional(|r| r.read_null())
             afterNull == IF rest # <<>> /\ rest[1][1] = "NULL" THEN Tail(rest) ELSE rest
             Wrap(res, C(_)) == IF IsErr(res) THEN res ELSE Ok(C(res[2]))
         IN IF IsErr(algorithm_type) THEN algorithm_type
            ELSE CASE oid = "OID_SHA1" -> Finish(Ok(Sha1), afterNull)
                   [] oid = "OID_SHA2" -> Finish(Ok(Sha2), afterNull)
                   [] oid = "OID_PBE_WITH_SHA1_AND40_BIT_RC2_CBC" ->
                        IF rest = <<>> THEN Err("Eof")
                        ELSE OneParam(rest, Wrap(Apply("Pkcs12PbeParams_parse", <<rest[1]>>), PbewithSHAAnd40BitRC2CBC))
                   [] oid = "OID_PBE_WITH_SHA_AND3_KEY_TRIPLE_DESCBC" ->
                        IF rest = <<>> THEN Err("Eof")
                        ELSE OneParam(rest, Wrap(Apply("Pkcs12PbeParams_parse", <<rest[1]>>), PbeWithSHAAnd3KeyTripleDESCBC))
                   [] oid = "OID_PBES2" ->
                        IF rest = <<>> THEN Err("Eof")
                        ELSE OneParam(rest, Wrap(Pkcs12Pbes2Params_parse(rest[1]), Pbes2))
                   [] oid = "OID_PBKDF2" ->
                        IF rest = <<>> THEN Err("Eof")
                        ELSE OneParam(rest, Wrap(Apply("Pbkdf2Params_parse", <<rest[1]>>), Pbkdf2Alg))
                   [] oid = "OID_HMAC_WITH_SHA1" ->
                        Finish(Ok(HmacWithSha1(OptionalDer(rest))),
                               IF rest = <<>> THEN rest ELSE Tail(rest))
                   [] oid = "OID_HMAC_WITH_SHA256" ->
                        Finish(Ok(HmacWithSha256(OptionalDer(rest))),
                               IF rest = <<>> THEN rest ELSE Tail(rest))
                   [] oid = "OID_AES_CBC_PAD" ->
                        IF rest = <<>> THEN Err("Eof")
                        ELSE OneParam(rest, Wrap(Apply("read_bytes", <<rest[1]>>), AesCbcPad))
                   [] OTHER ->
                        Finish(Ok(OtherAlg(oid, OptionalDer(rest))),
                               IF rest = <<>> THEN rest ELSE Tail(rest))


\* fn pbes2_decrypt: Some(plaintext), None, or an abort
pbes2_decrypt(key_derivation_function, encryption_scheme, cipher_text, password) ==
    IF key_derivation_function[1] # "Pbkdf2" THEN None
    ELSE LET params == key_derivation_function[2]
         IN IF params.salt[1] # "Specified" THEN None
            ELSE LET salt == params.salt[2]
                     keylen == IF IsSome(params.key_length) THEN params.key_length[2] ELSE 32
                     rounds == as_u32(params.iteration_count)
                     D == IF params.prf[1] = "HmacWithSha1" THEN "Sha1" ELSE "Sha256"
                     key == pbkdf2_hmac(D, password, salt, rounds, keylen)
                 IN IF params.prf[1] \notin {"HmacWithSha1", "HmacWithSha256"} THEN None
                    ELSE IF encryption_scheme[1] # "AesCbcPad" THEN None
                    \* Aes256CbcDec::new(key.as_slice().into(), iv.as_slice().into()):
                    \* GenericArray::from_slice asserts the lengths
                    ELSE IF keylen # 32 THEN Panic("key length")
                    ELSE IF BLen(encryption_scheme[2]) # 16 THEN Panic("iv length")
                    ELSE LET result == Apply("decrypt_padded", <<"Aes256", key, encryption_scheme[2], cipher_text>>)
                         \* .expect("failed")
                         IN IF IsOk(result) THEN Some(result[2]) ELSE Panic("failed")

\* AlgorithmIdentifier::decrypt_pbe
decrypt_pbe(alg, ciphertext, password) ==
    CASE alg[1] \in {"Sha1", "Sha2", "HmacWithSha1", "HmacWithSha256", "Pbkdf2", "AesCbcPad"} -> None
      [] alg[1] = "Pbes2" ->
           Apply("pbes2_decrypt", <<alg[2].key_derivation_function, alg[2].encryption_scheme,
                         ciphertext, password>>)
      [] alg[1] = "PbewithSHAAnd40BitRC2CBC" ->
           LET str == from_utf8(password)
           IN IF IsErr(str) THEN None
              ELSE pbe_with_sha1_and40_bit_rc2_cbc(ciphertext, bmp_string(str[2]),
                                                   alg[2].salt, alg[2].iterations)
      [] alg[1] = "PbeWithSHAAnd3KeyTripleDESCBC" ->
           LET str == from_utf8(password)
           IN IF IsErr(str) THEN None
              ELSE pbe_with_sha_and3_key_triple_des_cbc(ciphertext, bmp_string(str[2]),
                                                        alg[2].salt, alg[2].iterations)
      \* debug_assert!(false, "{id:?}"); None
      [] alg[1] = "OtherAlg" -> IF debug_assertions THEN Panic("debug_assert") ELSE None

\* --------------------------------------------------- EncryptedContentInfo
\* EncryptedContentInfo::parse
EncryptedContentInfo_parse(n) ==
    IF n[1] # "SEQ" THEN Invalid
    ELSE LET it == n[2]
         IN IF Len(it) < 1 THEN Err("Eof")
            ELSE LET content_type == read_oid(it[1])
                 IN IF IsErr(content_type) THEN content_type
                    \* debug_assert_eq!(content_type, *OID_DATA_CONTENT_TYPE)
                    ELSE IF debug_assertions /\ content_type[2] # "OID_DATA_CONTENT_TYPE"
                         THEN Panic("debug_assert_eq")
                    ELSE IF Len(it) < 2 THEN Err("Eof")
                    ELSE LET alg == Apply("AlgorithmIdentifier_parse", <<it[2]>>)
                         IN IF IsErr(alg) THEN alg
                            ELSE IF Len(it) < 3 THEN Err("Eof")
                            ELSE IF it[3][1] # "ICTX0" THEN Invalid
                            ELSE Finish(Ok([content_encryption_algorithm |-> alg[2],
                                            encrypted_content |-> it[3][2]]),
                                        SubSeq(it, 4, Len(it)))
\* EncryptedContentInfo::data
EncryptedContentInfo_data(eci, password) ==
    Apply("decrypt_pbe", <<eci.content_encryption_algorithm, eci.encrypted_content, password>>)
\* EncryptedContentInfo::write
EncryptedContentInfo_write(eci) ==
    write_sequence(<<write_oid("OID_DATA_CONTENT_TYPE"),
                     Apply("AlgorithmIdentifier_write", <<eci.content_encryption_algorithm>>),
                     write_tagged_implicit_bytes(eci.encrypted_content)>>)

\* ---------------------------------------------------------- EncryptedData
\* EncryptedData::parse
EncryptedData_parse(n) ==
    IF n[1] # "SEQ" THEN Invalid
    ELSE LET it == n[2]
         IN IF Len(it) < 1 THEN Err("Eof")
            ELSE LET version == read_u8(it[1])
                 IN IF IsErr(version) THEN version
                    \* debug_assert_eq!(version, 0)
                    ELSE IF debug_assertions /\ version[2] # 0 THEN Panic("debug_assert_eq")
                    ELSE IF Len(it) < 2 THEN Err("Eof")
                    ELSE LET eci == Apply("EncryptedContentInfo_parse", <<it[2]>>)
                         IN IF ~IsOk(eci) THEN eci
                            ELSE Finish(Ok([encrypted_content_info |-> eci[2]]),
                                        SubSeq(it, 3, Len(it)))
\* EncryptedData::data
EncryptedData_data(ed, password) == EncryptedContentInfo_data(ed.encrypted_content_info, password)
\* EncryptedData::write
EncryptedData_write(ed) ==
    write_sequence(<<write_int(0), EncryptedContentInfo_write(ed.encrypted_content_info)>>)

\* ------------------------------------------------------------ ContentInfo
Data(bytes) == <<"Data", bytes>>
EncryptedData(ed) == <<"EncryptedData", ed>>
OtherContext(oid, content) == <<"OtherContext", [content_type |-> oid, content |-> content]>>
\* ContentInfo::parse
ContentInfo_parse(n) ==
    IF n[1] # "SEQ" THEN Invalid
    ELSE LET it == n[2]
         IN IF Len(it) < 1 THEN Err("Eof")
            ELSE LET content_type == read_oid(it[1])
                 IN IF IsErr(content_type) THEN content_type
                    ELSE IF Len(it) < 2 THEN Err("Eof")
                    ELSE IF it[2][1] # "CTX0" THEN Invalid
                    ELSE LET inner == it[2][2]
                             left == SubSeq(it, 3, Len(it))
                         IN CASE content_type[2] = "OID_DATA_CONTENT_TYPE" ->
                                   LET data == Apply("read_bytes", <<inner>>)
                                   IN IF IsErr(data) THEN data ELSE Finish(Ok(Data(data[2])), left)
                              [] content_type[2] = "OID_ENCRYPTED_DATA_CONTENT_TYPE" ->
                                   LET ed == Apply("EncryptedData_parse", <<inner>>)
                                   IN IF ~IsOk(ed) THEN ed ELSE Finish(Ok(EncryptedData(ed[2])), left)
                              [] OTHER ->
                                   Finish(Ok(OtherContext(content_type[2], Apply("read_der", <<inner>>)[2])), left)
\* ContentInfo::data
ContentInfo_data(ci, password) ==
    CASE ci[1] = "Data" -> Some(ci[2])
      [] ci[1] = "EncryptedData" -> EncryptedData_data(ci[2], password)
      [] ci[1] = "OtherContext" -> None
\* ContentInfo::write
ContentInfo_write(ci) ==
    CASE ci[1] = "Data" ->
           write_sequence(<<write_oid("OID_DATA_CONTENT_TYPE"), write_tagged(write_bytes(ci[2]))>>)
      [] ci[1] = "EncryptedData" ->
           write_sequence(<<write_oid("OID_ENCRYPTED_DATA_CONTENT_TYPE"),
                            write_tagged(EncryptedData_write(ci[2]))>>)
      [] ci[1] = "OtherContext" ->
           write_sequence(<<write_oid(ci[2].content_type), write_tagged(write_der(ci[2].content))>>)


\* ------------------------------------------------------ DigestInfo, MacData
\* DigestInfo::parse
DigestInfo_parse(n) ==
    IF n[1] # "SEQ" THEN Invalid
    ELSE LET it == n[2]
         IN IF Len(it) < 1 THEN Err("Eof")
            ELSE LET alg == Apply("AlgorithmIdentifier_parse", <<it[1]>>)
                 IN IF IsErr(alg) THEN alg
                    ELSE IF Len(it) < 2 THEN Err("Eof")
                    ELSE LET digest == Apply("read_bytes", <<it[2]>>)
                         IN IF IsErr(digest) THEN digest
                            ELSE Finish(Ok([digest_algorithm |-> alg[2], digest |-> digest[2]]),
                                        SubSeq(it, 3, Len(it)))
\* DigestInfo::write
DigestInfo_write(d) ==
    write_sequence(<<Apply("AlgorithmIdentifier_write", <<d.digest_algorithm>>), write_bytes(d.digest)>>)
\* MacData::parse
MacData_parse(n) ==
    IF n[1] # "SEQ" THEN Invalid
    ELSE LET it == n[2]
         IN IF Len(it) < 1 THEN Err("Eof")
            ELSE LET mac == DigestInfo_parse(it[1])
                 IN IF IsErr(mac) THEN mac
                    ELSE IF Len(it) < 2 THEN Err("Eof")
                    ELSE LET salt == Apply("read_bytes", <<it[2]>>)
                         IN IF IsErr(salt) THEN salt
                            ELSE IF Len(it) < 3 THEN Err("Eof")
                            ELSE LET iterations == read_u32(it[3])
                                 IN IF IsErr(iterations) THEN iterations
                                    ELSE Finish(Ok([mac |-> mac[2], salt |-> salt[2],
                                                    iterations |-> iterations[2]]),
                                                SubSeq(it, 4, Len(it)))
\* MacData::write
MacData_write(m) ==
    write_sequence(<<DigestInfo_write(m.mac), write_bytes(m.salt), write_int(m.iterations)>>)
\* MacData::verify_mac: a bool, or an abort on the debug assertion
MacData_verify_mac(m, data, password) ==
    CASE m.mac.digest_algorithm[1] = "Sha1" ->
           LET key == Apply("pbepkcs12sha", <<"Sha1", password, m.salt, m.iterations, 3, 20>>)
           IN Bool(verify_slice(hmac("Sha1", key, data), m.mac.digest))
      [] m.mac.digest_algorithm[1] = "Sha2" ->
           LET key == Apply("pbepkcs12sha", <<"Sha256", password, m.salt, m.iterations, 3, 32>>)
           IN Bool(verify_slice(hmac("Sha256", key, data), m.mac.digest))
      \* debug_assert!(false, "digest should be sha1 or sha2"); false
      [] OTHER -> IF debug_assertions THEN Panic("debug_assert") ELSE Bool(FALSE)
\* (variant) the MAC key derived from the password's bytes as given, not BMP-encoded
MacData_new_raw(data, password, salt) ==
    LET key == Apply("pbepkcs12sha", <<"Sha1", password, salt, ITERATIONS, 3, 20>>)
        digest == hmac("Sha1", key, data)
    IN [mac |-> [digest_algorithm |-> Sha1, digest |-> digest],
        salt |-> salt,
        iterations |-> as_u32(ITERATIONS)]
\* MacData::new, given the 8 bytes rand::<8>() returned
MacData_new(data, password, salt) ==
    LET str == from_utf8(password)
        pw == bmp_string(str[2])
        key == Apply("pbepkcs12sha", <<"Sha1", pw, salt, ITERATIONS, 3, 20>>)
        digest == hmac("Sha1", key, data)
    IN [mac |-> [digest_algorithm |-> Sha1, digest |-> digest],
        salt |-> salt,
        iterations |-> as_u32(ITERATIONS)]

\* ---------------------------------------------------------------- CertBag
X509(bytes) == <<"X509", bytes>>
SDSI(str) == <<"SDSI", str>>
\* CertBag::parse
CertBag_parse(n) ==
    IF n[1] # "SEQ" THEN Invalid
    ELSE LET it == n[2]
         IN IF Len(it) < 1 THEN Err("Eof")
            ELSE LET oid == read_oid(it[1])
                 IN IF IsErr(oid) THEN oid
                    ELSE IF oid[2] \notin {"OID_CERT_TYPE_X509_CERTIFICATE",
                                           "OID_CERT_TYPE_SDSI_CERTIFICATE"} THEN Invalid
                    ELSE IF Len(it) < 2 THEN Err("Eof")
                    ELSE IF it[2][1] # "CTX0" THEN Invalid
                    ELSE LET v == IF oid[2] = "OID_CERT_TYPE_X509_CERTIFICATE"
                                  THEN Apply("read_bytes", <<it[2][2]>>) ELSE read_ia5_string(it[2][2])
                         IN IF IsErr(v) THEN v
                            ELSE Finish(Ok(IF oid[2] = "OID_CERT_TYPE_X509_CERTIFICATE"
                                           THEN X509(v[2]) ELSE SDSI(v[2])),
                                        SubSeq(it, 3, Len(it)))
\* CertBag::write
CertBag_write(cb) ==
    IF cb[1] = "X509"
    THEN write_sequence(<<write_oid("OID_CERT_TYPE_X509_CERTIFICATE"),
                          write_tagged(write_bytes(cb[2]))>>)
    ELSE write_sequence(<<write_oid("OID_CERT_TYPE_SDSI_CERTIFICATE"),
                          write_tagged(write_ia5_string(cb[2]))>>)

\* ------------------------------------------------ EncryptedPrivateKeyInfo
\* EncryptedPrivateKeyInfo::parse
EncryptedPrivateKeyInfo_parse(n) ==
    IF n[1] # "SEQ" THEN Invalid
    ELSE LET it == n[2]
         IN IF Len(it) < 1 THEN Err("Eof")
            ELSE LET alg == Apply("AlgorithmIdentifier_parse", <<it[1]>>)
                 IN IF IsErr(alg) THEN alg
                    ELSE IF Len(it) < 2 THEN Err("Eof")
                    ELSE LET data == Apply("read_bytes", <<it[2]>>)
                         IN IF IsErr(data) THEN data
                            ELSE Finish(Ok([encryption_algorithm |-> alg[2],
                                            encrypted_data |-> data[2]]),
                                        SubSeq(it, 3, Len(it)))
\* EncryptedPrivateKeyInfo::write
EncryptedPrivateKeyInfo_write(e) ==
    write_sequence(<<Apply("AlgorithmIdentifier_write", <<e.encryption_algorithm>>),
                     write_bytes(e.encrypted_data)>>)
\* EncryptedPrivateKeyInfo::decrypt
EncryptedPrivateKeyInfo_decrypt(e, password) ==
    Apply("decrypt_pbe", <<e.encryption_algorithm, e.encrypted_data, password>>)

\* ------------------------------------------------------------ SafeBagKind
Pkcs8ShroudedKeyBag(epk) == <<"Pkcs8ShroudedKeyBag", epk>>
CertBag(cb) == <<"CertBag", cb>>
OtherBagKind(bag_id, bag_value) == <<"OtherBagKind", [bag_id |-> bag_id, bag_value |-> bag_value]>>
\* SafeBagKind::parse
SafeBagKind_parse(n, bag_id) ==
    CASE bag_id = "OID_CERT_BAG" ->
           LET cb == Apply("CertBag_parse", <<n>>) IN IF IsErr(cb) THEN cb ELSE Ok(CertBag(cb[2]))
      [] bag_id = "OID_PKCS8_SHROUDED_KEY_BAG" ->
           LET epk == EncryptedPrivateKeyInfo_parse(n)
           IN IF IsErr(epk) THEN epk ELSE Ok(Pkcs8ShroudedKeyBag(epk[2]))
      [] OTHER -> Ok(OtherBagKind(bag_id, Apply("read_der", <<n>>)[2]))
\* SafeBagKind::write
SafeBagKind_write(b) ==
    CASE b[1] = "Pkcs8ShroudedKeyBag" -> EncryptedPrivateKeyInfo_write(b[2])
      [] b[1] = "CertBag" -> CertBag_write(b[2])
      [] b[1] = "OtherBagKind" -> write_der(b[2].bag_value)
\* SafeBagKind::oid
SafeBagKind_oid(b) ==
    CASE b[1] = "Pkcs8ShroudedKeyBag" -> "OID_PKCS8_SHROUDED_KEY_BAG"
      [] b[1] = "CertBag" -> "OID_CERT_BAG"
      [] b[1] = "OtherBagKind" -> b[2].bag_id
\* SafeBagKind::get_x509_cert
get_x509_cert(b) == IF b[1] = "CertBag" /\ b[2][1] = "X509" THEN Some(b[2][2]) ELSE None
\* SafeBagKind::get_sdsi_cert
get_sdsi_cert(b) == IF b[1] = "CertBag" /\ b[2][1] = "SDSI" THEN Some(b[2][2]) ELSE None
\* SafeBagKind::get_key
get_key(b, password) ==
    IF b[1] = "Pkcs8ShroudedKeyBag" THEN EncryptedPrivateKeyInfo_decrypt(b[2], password) ELSE None

\* -------------------------------------------------------- PKCS12Attribute
FriendlyName(name) == <<"FriendlyName", name>>
LocalKeyId(id) == <<"LocalKeyId", id>>
OtherAttribute(oid, data) == <<"Other", [oid |-> oid, data |-> data]>>
\* collect_set_of(f): every element of the SET read by f, in the order met
CollectAll(items, f) ==
    LET rs == Strict([k \in 1..Len(items) |-> Apply(f, <<items[k]>>)])
        bad == {k \in 1..Len(items) : ~IsOk(rs[k])}
    IN IF bad # {} THEN rs[CHOOSE k \in bad : \A j \in bad : k <= j]
       ELSE Ok(Strict([k \in 1..Len(items) |-> rs[k][2]]))
\* (variant) every attribute read as one of another OID
PKCS12Attribute_parse_other(n) ==
    IF n[1] # "SEQ" \/ Len(n[2]) # 2 THEN Invalid
    ELSE IF n[2][1][1] # "OID" \/ n[2][2][1] # "SET" THEN Invalid
    ELSE Ok(OtherAttribute(n[2][1][2], CollectAll(n[2][2][2], "read_der")[2]))
\* PKCS12Attribute::parse
PKCS12Attribute_parse(n) ==
    IF n[1] # "SEQ" THEN Invalid
    ELSE LET it == n[2]
         IN IF Len(it) < 1 THEN Err("Eof")
            ELSE LET oid == read_oid(it[1])
                 IN IF IsErr(oid) THEN oid
                    ELSE IF Len(it) < 2 THEN Err("Eof")
                    ELSE IF it[2][1] # "SET" THEN Invalid
                    ELSE LET vals == it[2][2]
                             left == SubSeq(it, 3, Len(it))
                         IN CASE oid[2] = "OID_FRIENDLY_NAME" ->
                                   LET names == CollectAll(vals, "read_bmp_string")
                                   IN IF IsErr(names) THEN names
                                      \* .pop().ok_or_else(Invalid)
                                      ELSE IF names[2] = <<>> THEN Invalid
                                      ELSE Finish(Ok(FriendlyName(names[2][Len(names[2])])), left)
                              [] oid[2] = "OID_LOCAL_KEY_ID" ->
                                   LET ids == CollectAll(vals, "read_bytes")
                                   IN IF IsErr(ids) THEN ids
                                      ELSE IF ids[2] = <<>> THEN Invalid
                                      ELSE Finish(Ok(LocalKeyId(ids[2][Len(ids[2])])), left)
                              [] OTHER ->
                                   Finish(Ok(OtherAttribute(oid[2], CollectAll(vals, "read_der")[2])), left)
\* PKCS12Attribute::write
PKCS12Attribute_write(a) ==
    CASE a[1] = "FriendlyName" ->
           write_sequence(<<write_oid("OID_FRIENDLY_NAME"), write_set_of(<<write_bmp_string(a[2])>>)>>)
      [] a[1] = "LocalKeyId" ->
           write_sequence(<<write_oid("OID_LOCAL_KEY_ID"), write_set_of(<<write_bytes(a[2])>>)>>)
      [] a[1] = "Other" ->
           write_sequence(<<write_oid(a[2].oid),
                            write_set_of(Strict([k \in 1..Len(a[2].data) |-> write_der(a[2].data[k])]))>>)

\* ---------------------------------------------------------------- SafeBag
\* SafeBag::parse
SafeBag_parse(n) ==
    IF n[1] # "SEQ" THEN Invalid
    ELSE LET it == n[2]
         IN IF Len(it) < 1 THEN Err("Eof")
            ELSE LET oid == read_oid(it[1])
                 IN IF IsErr(oid) THEN oid
                    ELSE IF Len(it) < 2 THEN Err("Eof")
                    ELSE IF it[2][1] # "CTX0" THEN Invalid
                    ELSE LET bag == Apply("SafeBagKind_parse", <<it[2][2], oid[2]>>)
                             r3 == SubSeq(it, 3, Len(it))
                             \* read_optional(|r| r.collect_set_of(PKCS12Attribute::parse))
                             hasSet == r3 # <<>> /\ r3[1][1] = "SET"
                             attributes == IF hasSet THEN CollectAll(r3[1][2], "PKCS12Attribute_parse")
                                           ELSE Ok(<<>>)
                         IN IF IsErr(bag) THEN bag
                            ELSE IF IsErr(attributes) THEN attributes
                            ELSE Finish(Ok([bag |-> bag[2], attributes |-> attributes[2]]),
                                        IF hasSet THEN Tail(r3) ELSE r3)
\* SafeBag::write
SafeBag_write(sb) ==
    write_sequence(<<write_oid(SafeBagKind_oid(sb.bag)), write_tagged(SafeBagKind_write(sb.bag))>>
                   \o (IF sb.attributes # <<>>
                       THEN <<write_set_of(Strict([k \in 1..Len(sb.attributes) |->
                                              Apply("PKCS12Attribute_write", <<sb.attributes[k]>>)]))>>
                       ELSE <<>>))
\* SafeBag::friendly_name
friendly_name(sb) ==
    LET hits == SelectSeq(sb.attributes, LAMBDA a : a[1] = "FriendlyName")
    IN IF hits = <<>> THEN None ELSE Some(hits[1][2])
\* (variant) the payload of the first attribute, whatever its kind
local_key_id_first(sb) ==
    IF sb.attributes = <<>> THEN None ELSE Some(sb.attributes[1][2])
\* SafeBag::local_key_id
local_key_id(sb) ==
    LET hits == SelectSeq(sb.attributes, LAMBDA a : a[1] = "LocalKeyId")
    IN IF hits = <<>> THEN None ELSE Some(hits[1][2])


\* ---------------------------------------------------------- random source
\* The random source is a stream: its k-th read returns the byte rnd[k]
\* repeated, or fails (getrandom returned an error) where rnd[k] = RandFail.
RandFail == 256
\* (variant) a read that returns one byte more than asked for
rand_long(rnd, k, size) ==
    IF rnd[k] = RandFail THEN None ELSE Some(Raw(Strict([i \in 1..(size + 1) |-> rnd[k]])))
\* (variant) a read that returns zero bytes whatever the stream holds
rand_zero(rnd, k, size) ==
    IF rnd[k] = RandFail THEN None ELSE Some(Raw(Strict([i \in 1..size |-> 0])))
\* fn rand<IV_SIZE>, as the k-th read of the stream
rand(rnd, k, size) ==
    IF rnd[k] = RandFail THEN None ELSE Some(Raw(Strict([i \in 1..size |-> rnd[k]])))

\* -------------------------------------------------- KeyDeriver, DataEncryptor
\* (variant) a default deriver with HMAC-SHA-1 and an explicit key length
KeyDeriver_default_sha1(KDF, rnd, k) ==
    LET salt == rand(rnd, k, 16)
    IN IF IsNone(salt) THEN Panic("unwrap")
       ELSE Ok(Pbkdf2Alg([salt |-> Specified(salt[2]), iteration_count |-> 2048,
                          key_length |-> Some(32), prf |-> HmacWithSha1(None)]))
\* <KDF as Default>::default(), drawing the k-th read: Ok(deriver) or an abort (unwrap)
KeyDeriver_default(KDF, rnd, k) ==
    IF KDF = "Pbkdf2"
    THEN LET salt == rand(rnd, k, 16)
         IN IF IsNone(salt) THEN Panic("unwrap")
            ELSE Ok(Pbkdf2Alg([salt |-> Specified(salt[2]), iteration_count |-> 2048,
                               key_length |-> None, prf |-> HmacWithSha256(None)]))
    ELSE LET salt == rand(rnd, k, 8)
         IN IF IsNone(salt) THEN Panic("unwrap")
            ELSE Ok(PbewithSHAAnd40BitRC2CBC([salt |-> salt[2], iterations |-> ITERATIONS]))
\* (variant) a deriver that returns a key whatever its kind
derive_key_some(KDF, deriver, password) ==
    Some(pbkdf2_hmac("Sha256", password, Raw(<<>>), ITERATIONS, 32))
\* KeyDeriver::derive_key
derive_key(KDF, deriver, password) ==
    IF KDF = "Pbkdf2"
    THEN IF deriver[1] # "Pbkdf2" THEN None
         ELSE LET params == deriver[2]
              IN IF params.salt[1] # "Specified" THEN None
                 ELSE IF params.prf[1] \notin {"HmacWithSha1", "HmacWithSha256"} THEN None
                 ELSE Some(pbkdf2_hmac(IF params.prf[1] = "HmacWithSha1" THEN "Sha1" ELSE "Sha256",
                                       password, params.salt[2],
                                       as_u32(params.iteration_count),
                                       IF IsSome(params.key_length) THEN params.key_length[2] ELSE 32))
    ELSE None
\* KeyDeriver::get_algorithm
get_algorithm(deriver) == deriver
\* (variant) an AES encryptor whose IV is always the first read of the stream
DataEncryptor_new_reuse(Encryptor, rnd, k) ==
    IF Encryptor = "AesCbcDataEncryptor"
    THEN LET salt == rand(rnd, 1, 16)
         IN IF IsNone(salt) THEN Panic("unwrap") ELSE Ok([iv |-> salt[2]])
    ELSE Ok([iv |-> Raw(<<>>)])
\* <Encryptor as DataEncryptor>::new(), drawing the k-th read (the legacy
\* encryptor draws nothing): Ok(encryptor) or an abort (unwrap)
DataEncryptor_new(Encryptor, rnd, k) ==
    IF Encryptor = "AesCbcDataEncryptor"
    THEN LET salt == rand(rnd, k, 16)
         IN IF IsNone(salt) THEN Panic("unwrap") ELSE Ok([iv |-> salt[2]])
    ELSE Ok([iv |-> Raw(<<>>)])
\* the algorithm identifier the AES encryptor emits
AesAlgorithm(self, key_deriver) ==
    Pbes2([key_derivation_function |-> get_algorithm(key_deriver),
           encryption_scheme |-> AesCbcPad(self.iv)])
\* the ciphertext and identifier of one encryption by either encryptor:
\* Some([alg, ct]), None, or an abort.  k is the read the legacy encryptor
\* draws its salt with; forKey tells encrypt_keybag_key_deriver from
\* encrypt_key_deriver.
Encrypt_core(Encryptor, self, KDF, key_deriver, data, password, rnd, k, forKey) ==
    IF Encryptor = "AesCbcDataEncryptor"
    THEN LET key == Apply("derive_key", <<KDF, key_deriver, password>>)
         IN IF IsNone(key) THEN None
            \* Aes256CbcEnc::new(key.as_slice().into(), self.iv.as_slice().into())
            ELSE IF BLen(key[2]) # 32 \/ BLen(self.iv) # 16 THEN Panic("length")
            ELSE Some([alg |-> AesAlgorithm(self, key_deriver),
                       ct |-> encrypt_padded("Aes256", key[2], self.iv, data)])
    ELSE LET str == from_utf8(password)
             salt == rand(rnd, k, 8)
         IN IF IsErr(str) THEN None
            ELSE IF IsNone(salt) THEN None
            ELSE LET pw == bmp_string(str[2])
                     param == [salt |-> salt[2], iterations |-> ITERATIONS]
                 IN IF forKey
                    THEN Some([alg |-> PbeWithSHAAnd3KeyTripleDESCBC(param),
                               ct |-> pbe_with_sha_and3_key_triple_des_cbc_encrypt(
                                          data, pw, salt[2], ITERATIONS)[2]])
                    ELSE Some([alg |-> PbewithSHAAnd40BitRC2CBC(param),
                               ct |-> pbe_with_sha_and40_bit_rc2_cbc_encrypt(
                                          "Sha1", data, pw, salt[2], ITERATIONS)[2]])
\* DataEncryptor::encrypt_keybag::<KDF>: KDF::default() (read kd), then
\* encrypt_keybag_key_deriver (read k)
encrypt_keybag(Encryptor, self, KDF, data, password, rnd, kd, k) ==
    LET key_deriver == Apply("KeyDeriver_default", <<KDF, rnd, kd>>)
    IN IF IsPanic(key_deriver) THEN key_deriver
       ELSE LET r == Apply("Encrypt_core", <<Encryptor, self, KDF, key_deriver[2], data, password, rnd, k, TRUE>>)
            IN IF ~IsSome(r) THEN r
               ELSE Some(Pkcs8ShroudedKeyBag([encryption_algorithm |-> r[2].alg,
                                              encrypted_data |-> r[2].ct]))
\* DataEncryptor::encrypt::<KDF>: KDF::default() (read kd), then encrypt_key_deriver (read k)
encrypt(Encryptor, self, KDF, data, password, rnd, kd, k) ==
    LET key_deriver == Apply("KeyDeriver_default", <<KDF, rnd, kd>>)
    IN IF IsPanic(key_deriver) THEN key_deriver
       ELSE LET r == Apply("Encrypt_core", <<Encryptor, self, KDF, key_deriver[2], data, password, rnd, k, FALSE>>)
            IN IF ~IsSome(r) THEN r
               ELSE Some([content_encryption_algorithm |-> r[2].alg,
                          encrypted_content |-> r[2].ct])
\* EncryptedContentInfo::from_safe_bags (reads ke, kd, k), wrapped by
\* EncryptedData::from_safe_bags
EncryptedData_from_safe_bags(Encryptor, KDF, safe_bags, password, rnd, ke, kd, k) ==
    LET data == construct_der(write_sequence_of(
                    Strict([j \in 1..Len(safe_bags) |-> Apply("SafeBag_write", <<safe_bags[j]>>)])))
        encryptor == DataEncryptor_new(Encryptor, rnd, ke)
    IN IF IsPanic(encryptor) THEN encryptor
       ELSE LET eci == encrypt(Encryptor, encryptor[2], KDF, data, password, rnd, kd, k)
            IN IF ~IsSome(eci) THEN eci ELSE Some([encrypted_content_info |-> eci[2]])

\* -------------------------------------------------------------------- PFX
\* the reads of the random stream a build makes, in order:
\*   AES encryptor:    1 IV (new), 2 KDF salt, 3 IV (new), 4 KDF salt, 5 MAC salt
\*   legacy encryptor: 1 KDF salt (default), 2 key-bag salt, 3 KDF salt
\*                     (default), 4 bundle salt, 5 MAC salt
NDraws == 5
\* PFX::new_with_cas::<Encryptor, KDF>: Some(PFX), None, or an abort
PFX_new_with_cas(Encryptor, KDF, cert_der, key_der, ca_der_list, password, name, rnd) ==
    LET aes == Encryptor = "AesCbcDataEncryptor"
        pw == as_bytes(password)
        data_encryptor == DataEncryptor_new(Encryptor, rnd, 1)
    IN IF IsPanic(data_encryptor) THEN data_encryptor
       ELSE
       LET key_bag_inner == encrypt_keybag(Encryptor, data_encryptor[2], KDF, key_der, pw, rnd,
                                           IF aes THEN 2 ELSE 1, 2)
       IN IF ~IsSome(key_bag_inner) THEN key_bag_inner
          ELSE
          LET friendly == FriendlyName(name)
              key_id == LocalKeyId(sha("Sha1", cert_der))
              key_bag == [bag |-> key_bag_inner[2], attributes |-> <<friendly, key_id>>]
              cert_bag == [bag |-> CertBag(X509(cert_der)), attributes |-> <<friendly, key_id>>]
              cert_bags == <<cert_bag>> \o Strict([j \in 1..Len(ca_der_list) |->
                               [bag |-> CertBag(X509(ca_der_list[j])), attributes |-> <<>>]])
              bundle == Apply("EncryptedData_from_safe_bags", <<Encryptor, KDF, cert_bags, pw, rnd,
                                                     3, IF aes THEN 4 ELSE 3, 4>>)
          IN IF IsPanic(bundle) THEN bundle
             \* .ok_or_else(|| ASN1Error::new(ASN1ErrorKind::Invalid)).unwrap()
             ELSE IF IsNone(bundle) THEN Panic("unwrap")
             ELSE
             LET contents == construct_der(write_sequence_of(
                     <<ContentInfo_write(EncryptedData(bundle[2])),
                       ContentInfo_write(Data(construct_der(
                           write_sequence_of(<<Apply("SafeBag_write", <<key_bag>>)>>))))>>))
                 salt == rand(rnd, 5, 8)
             IN \* MacData::new: rand::<8>().unwrap()
                IF IsNone(salt) THEN Panic("unwrap")
                ELSE Some([version |-> 3,
                           auth_safe |-> Data(contents),
                           mac_data |-> Some(Apply("MacData_new", <<contents, pw, salt[2]>>))])
\* PFX::new::<Encryptor, KDF>
PFX_new(Encryptor, KDF, cert_der, key_der, ca_der, password, name, rnd) ==
    Apply("PFX_new_with_cas", <<Encryptor, KDF, cert_der, key_der,
                     IF IsSome(ca_der) THEN <<ca_der[2]>> ELSE <<>>, password, name, rnd>>)

\* yasna::parse_ber(bytes, f): bytes that are not the encoding of an element
\* (a ciphertext, what a wrong key decrypted it to, a certificate blob of
\* the model) do not parse
parse_ber(bytes, f) == IF bytes[1] = "der" THEN Apply(f, <<bytes[2]>>) ELSE Invalid
\* the reader PFX::parse gives to parse_ber
PFX_read(n) ==
    IF n[1] # "SEQ" THEN Invalid
    ELSE LET it == n[2]
         IN IF Len(it) < 1 THEN Err("Eof")
            ELSE LET version == read_u8(it[1])
                 IN IF IsErr(version) THEN version
                    ELSE IF Len(it) < 2 THEN Err("Eof")
                    ELSE LET auth_safe == Apply("ContentInfo_parse", <<it[2]>>)
                             r3 == SubSeq(it, 3, Len(it))
                             \* r.read_optional(MacData::parse)
                             hasMac == r3 # <<>> /\ r3[1][1] = "SEQ"
                             mac_data == IF hasMac THEN Apply("MacData_parse", <<r3[1]>>) ELSE Ok(0)
                         IN IF ~IsOk(auth_safe) THEN auth_safe
                            ELSE IF IsErr(mac_data) THEN mac_data
                            ELSE Finish(Ok([version |-> version[2],
                                            auth_safe |-> auth_safe[2],
                                            mac_data |-> IF hasMac THEN Some(mac_data[2]) ELSE None]),
                                        IF hasMac THEN Tail(r3) ELSE r3)
\* (variant) a parse that refuses a PFX whose MAC does not verify under the
\* empty password
PFX_parse_checked(bytes) ==
    LET r == parse_ber(bytes, "PFX_read")
    IN IF IsOk(r) /\ Apply("verify_mac", <<r[2], <<>>>>) # Bool(TRUE) THEN Invalid ELSE r
\* PFX::parse
PFX_parse(bytes) == parse_ber(bytes, "PFX_read")
\* PFX::write
PFX_write(pfx) ==
    write_sequence(<<write_int(pfx.version), ContentInfo_write(pfx.auth_safe)>>
                   \o (IF IsSome(pfx.mac_data) THEN <<MacData_write(pfx.mac_data[2])>> ELSE <<>>))
\* PFX::to_der
PFX_to_der(pfx) == construct_der(Apply("PFX_write", <<pfx>>))

\* r.collect_sequence_of(f)
collect_sequence_of(n, f) == IF n[1] # "SEQ" THEN Invalid ELSE CollectAll(n[2], f)
ContentInfos_read(n) == collect_sequence_of(n, "ContentInfo_parse")
SafeBags_read(n) == collect_sequence_of(n, "SafeBag_parse")
\* the loop of PFX::bags over the inner ContentInfos, stopping at the first failure
bags_loop(contents, password) ==
    IF contents = <<>> THEN Ok(<<>>)
    ELSE LET data == ContentInfo_data(contents[1], password)
         IN IF IsPanic(data) THEN data
            ELSE IF IsNone(data) THEN Invalid
            ELSE LET safe_bags == parse_ber(data[2], "SafeBags_read")
                 IN IF ~IsOk(safe_bags) THEN safe_bags
                    ELSE LET rest == Apply("bags_loop", <<Tail(contents), password>>)
                         IN IF ~IsOk(rest) THEN rest ELSE Ok(safe_bags[2] \o rest[2])
\* PFX::bags, on the password's bytes
bags_bytes(pfx, password) ==
    LET data == ContentInfo_data(pfx.auth_safe, password)
    IN IF IsPanic(data) THEN data
       ELSE IF IsNone(data) THEN Invalid
       ELSE LET contents == parse_ber(data[2], "ContentInfos_read")
            IN IF ~IsOk(contents) THEN contents ELSE Apply("bags_loop", <<contents[2], password>>)
\* PFX::bags
bags(pfx, password) == bags_bytes(pfx, as_bytes(password))
\* the Some values of f over the bags, in order
FilterMap(safe_bags, f) ==
    LET hits == SelectSeq(Strict([k \in 1..Len(safe_bags) |-> Apply(f, <<safe_bags[k].bag>>)]), IsSome)
    IN Strict([k \in 1..Len(hits) |-> hits[k][2]])
\* PFX::cert_x509_bags (and cert_bags)
cert_x509_bags(pfx, password) ==
    LET b == Apply("bags", <<pfx, password>>)
    IN IF ~IsOk(b) THEN b ELSE Ok(FilterMap(b[2], "get_x509_cert"))
\* PFX::cert_sdsi_bags
cert_sdsi_bags(pfx, password) ==
    LET b == Apply("bags", <<pfx, password>>)
    IN IF ~IsOk(b) THEN b ELSE Ok(FilterMap(b[2], "get_sdsi_cert"))
\* (variant) key_bags handing get_key the BMP encoding of the password
key_bags_bmp(pfx, password) ==
    LET bmp_password == bmp_string(password)
        b == Apply("bags", <<pfx, password>>)
    IN IF ~IsOk(b) THEN b
       ELSE LET keys == Strict([k \in 1..Len(b[2]) |-> get_key(b[2][k].bag, bmp_password)])
                aborted == {k \in 1..Len(keys) : IsPanic(keys[k])}
                hits == SelectSeq(keys, IsSome)
            IN IF aborted # {} THEN keys[CHOOSE k \in aborted : \A j \in aborted : k <= j]
               ELSE Ok(Strict([k \in 1..Len(hits) |-> hits[k][2]]))
\* PFX::key_bags
key_bags(pfx, password) ==
    LET bmp_password == as_bytes(password)
        b == Apply("bags", <<pfx, password>>)
    IN IF ~IsOk(b) THEN b
       ELSE LET keys == Strict([k \in 1..Len(b[2]) |-> get_key(b[2][k].bag, bmp_password)])
                aborted == {k \in 1..Len(keys) : IsPanic(keys[k])}
                hits == SelectSeq(keys, IsSome)
            IN IF aborted # {} THEN keys[CHOOSE k \in aborted : \A j \in aborted : k <= j]
               ELSE Ok(Strict([k \in 1..Len(hits) |-> hits[k][2]]))
\* PFX::verify_mac
verify_mac(pfx, password) ==
    LET bmp_password == bmp_string(password)
    IN IF IsSome(pfx.mac_data)
       THEN LET data == ContentInfo_data(pfx.auth_safe, bmp_password)
            IN IF IsPanic(data) THEN data
               ELSE IF IsSome(data) THEN Apply("MacData_verify_mac", <<pfx.mac_data[2], data[2], bmp_password>>)
               ELSE Bool(FALSE)
       ELSE Bool(TRUE)



\* the table of the library's functions by name
Apply(f, a) ==
    CASE f = "from_utf8_seq" -> from_utf8_seq(a[1])
      [] f = "OidArcs" -> OidArcs(a[1])
      [] f = "DerBytes" -> DerBytes(a[1])
      [] f = "decrypt_padded" -> decrypt_padded(a[1], a[2], a[3], a[4])
      [] f = "pbepkcs12sha" -> pbepkcs12sha(a[1], a[2], a[3], a[4], a[5], a[6])
      [] f = "read_bytes" -> read_bytes(a[1])
      [] f = "read_der" -> read_der(a[1])
      [] f = "read_bmp_string" -> read_bmp_string(a[1])
      [] f = "Pkcs12PbeParams_parse" -> Pkcs12PbeParams_parse(a[1])
      [] f = "AlgorithmIdentifier_write" -> AlgorithmIdentifier_write(a[1])
      [] f = "Pbkdf2Params_parse" -> Pbkdf2Params_parse(a[1])
      [] f = "AlgorithmIdentifier_parse" -> AlgorithmIdentifier_parse(a[1])
      [] f = "pbes2_decrypt" -> pbes2_decrypt(a[1], a[2], a[3], a[4])
      [] f = "decrypt_pbe" -> decrypt_pbe(a[1], a[2], a[3])
      [] f = "EncryptedContentInfo_parse" -> EncryptedContentInfo_parse(a[1])
      [] f = "EncryptedData_parse" -> EncryptedData_parse(a[1])
      [] f = "ContentInfo_parse" -> ContentInfo_parse(a[1])
      [] f = "MacData_parse" -> MacData_parse(a[1])
      [] f = "MacData_verify_mac" -> MacData_verify_mac(a[1], a[2], a[3])
      [] f = "MacData_new" -> MacData_new(a[1], a[2], a[3])
      [] f = "CertBag_parse" -> CertBag_parse(a[1])
      [] f = "SafeBagKind_parse" -> SafeBagKind_parse(a[1], a[2])
      [] f = "get_x509_cert" -> get_x509_cert(a[1])
      [] f = "get_sdsi_cert" -> get_sdsi_cert(a[1])
      [] f = "PKCS12Attribute_parse" -> PKCS12Attribute_parse(a[1])
      [] f = "PKCS12Attribute_write" -> PKCS12Attribute_write(a[1])
      [] f = "SafeBag_parse" -> SafeBag_parse(a[1])
      [] f = "SafeBag_write" -> SafeBag_write(a[1])
      [] f = "KeyDeriver_default" -> KeyDeriver_default(a[1], a[2], a[3])
      [] f = "derive_key" -> derive_key(a[1], a[2], a[3])
      [] f = "Encrypt_core" -> Encrypt_core(a[1], a[2], a[3], a[4], a[5], a[6], a[7], a[8], a[9])
      [] f = "EncryptedData_from_safe_bags" -> EncryptedData_from_safe_bags(a[1], a[2], a[3], a[4], a[5], a[6], a[7], a[8])
      [] f = "PFX_new_with_cas" -> PFX_new_with_cas(a[1], a[2], a[3], a[4], a[5], a[6], a[7], a[8])
      [] f = "PFX_read" -> PFX_read(a[1])
      [] f = "PFX_write" -> PFX_write(a[1])
      [] f = "ContentInfos_read" -> ContentInfos_read(a[1])
      [] f = "SafeBags_read" -> SafeBags_read(a[1])
      [] f = "bags_loop" -> bags_loop(a[1], a[2])
      [] f = "bags" -> bags(a[1], a[2])
      [] f = "key_bags" -> key_bags(a[1], a[2])
      [] f = "verify_mac" -> verify_mac(a[1], a[2])
\* ------------------------------------------------------------ input space
\* the characters passwords are made of: U+0000 and "a"
PwChars == {0, 97}
Passwords == SeqsUpTo(PwChars, MaxPwLen)
ProbePasswords == SeqsUpTo(PwChars, MaxProbeLen)
Cert1 == Raw(<<11>>)
Key1 == Raw(<<21, 22>>)
Keys == {Raw(<<>>), Key1}
\* the CA lists: the first k of the certificates 31, 32, ...
CaLists == {Strict([j \in 1..k |-> Raw(<<30 + j>>)]) : k \in 0..MaxCas}
Name1 == <<110>>
\* the names PFX::new is given: "n", the empty name, and U+1F600 (outside the BMP)
Names == {Name1, <<>>, <<128512>>}
\* the pairs <Encryptor, KDF> a build is instantiated with: the modern pair,
\* the legacy pair, and the AES encryptor given the legacy key deriver
Pipelines == {<<"AesCbcDataEncryptor", "Pbkdf2">>,
              <<"PbeWithShaAnd40BitRc2CbcEncryptor", "PbeWithShaAnd40BitRc2CbcEncryptKeyDeriver">>,
              <<"AesCbcDataEncryptor", "PbeWithShaAnd40BitRc2CbcEncryptKeyDeriver">>}
\* the streams the random source is run with: every read succeeds (and no two
\* reads return the same bytes), or the j-th read fails
RandStreams == {Strict([k \in 1..NDraws |-> k])}
               \cup {Strict([k \in 1..NDraws |-> IF k = j THEN RandFail ELSE k]) : j \in 1..NDraws}

\* a byte string equal to b but for the byte at pos, which is XORed with mask
Xor(b, pos, mask) == <<"xor", b, pos, mask>>

\* ------------------------------------------- files written by other producers
\* every such file is protected with the password "a"
FilePassword == <<97>>
NullDer == Der(write_null)
Salt8 == Raw(<<5, 5, 5, 5, 5, 5, 5, 5>>)
Iv16 == Raw(<<9, 9, 9, 9, 9, 9, 9, 9, 9, 9, 9, 9, 9, 9, 9, 9>>)
\* PBKDF2 with the prf written in full (hmacWithSHA256, NULL), then AES-256-CBC
Pbkdf2Node == write_sequence(<<write_oid("OID_PBKDF2"),
                  write_sequence(<<write_bytes(Salt8), write_int(ITERATIONS),
                      write_sequence(<<write_oid("OID_HMAC_WITH_SHA256"), write_null>>)>>)>>)
Pbes2Node == write_sequence(<<write_oid("OID_PBES2"),
                 write_sequence(<<Pbkdf2Node,
                     write_sequence(<<write_oid("OID_AES_CBC_PAD"), write_bytes(Iv16)>>)>>)>>)
\* the same, the salt named by an algorithm identifier (otherSource)
Pbes2OtherSaltNode ==
    write_sequence(<<write_oid("OID_PBES2"),
        write_sequence(<<write_sequence(<<write_oid("OID_PBKDF2"),
                             write_sequence(<<write_sequence(<<write_oid("OID_SHA1"), write_null>>),
                                 write_int(ITERATIONS),
                                 write_sequence(<<write_oid("OID_HMAC_WITH_SHA256"), write_null>>)>>)>>),
                         write_sequence(<<write_oid("OID_AES_CBC_PAD"), write_bytes(Iv16)>>)>>)>>)
Pbes2Encrypted(data, pw) ==
    encrypt_padded("Aes256", pbkdf2_hmac("Sha256", pw, Salt8, ITERATIONS, 32), Iv16, data)
TdesNode == write_sequence(<<write_oid("OID_PBE_WITH_SHA_AND3_KEY_TRIPLE_DESCBC"),
                Pkcs12PbeParams_write([salt |-> Salt8, iterations |-> ITERATIONS])>>)
TdesEncrypted(data, pw) ==
    pbe_with_sha_and3_key_triple_des_cbc_encrypt(data, pw, Salt8, ITERATIONS)[2]
\* the bags of a file: a certificate, and the key shrouded under PBES2
FileCertBags == construct_der(write_sequence_of(
    <<Apply("SafeBag_write", <<[bag |-> CertBag(X509(Cert1)), attributes |-> <<LocalKeyId(Raw(<<1>>))>>]>>)>>))
FileKeyBags == construct_der(write_sequence_of(
    <<write_sequence(<<write_oid("OID_PKCS8_SHROUDED_KEY_BAG"),
          write_tagged(write_sequence(<<Pbes2Node,
              write_bytes(Pbes2Encrypted(Key1, as_bytes(FilePassword)))>>))>>)>>))
\* two keys shrouded under the legacy triple DES, the second under another password
OtherPassword == <<98>>
Key2 == Raw(<<23>>)
TdesKeyBagNode(key, pw) ==
    write_sequence(<<write_oid("OID_PKCS8_SHROUDED_KEY_BAG"),
        write_tagged(write_sequence(<<TdesNode, write_bytes(TdesEncrypted(key, bmp_string(pw)))>>))>>)
FileTwoKeyBags == construct_der(write_sequence_of(
    <<TdesKeyBagNode(Key1, FilePassword), TdesKeyBagNode(Key2, OtherPassword)>>))
FileContents == construct_der(write_sequence_of(
    <<ContentInfo_write(Data(FileCertBags)), ContentInfo_write(Data(FileKeyBags))>>))
EncryptedDataNode(algNode, ct) ==
    write_sequence(<<write_oid("OID_ENCRYPTED_DATA_CONTENT_TYPE"),
        write_tagged(write_sequence(<<write_int(0),
            write_sequence(<<write_oid("OID_DATA_CONTENT_TYPE"), algNode,
                             write_tagged_implicit_bytes(ct)>>)>>))>>)
MacNode(algNode, digest, salt, iterations) ==
    <<write_sequence(<<write_sequence(<<algNode, write_bytes(digest)>>),
                       write_bytes(salt), write_int(iterations)>>)>>
FileMac(D, n, data) ==
    hmac(D, Apply("pbepkcs12sha", <<D, bmp_string(FilePassword), Salt8, 1, 3, n>>), data)
PfxNode(auth_safe, mac) == write_sequence(<<write_int(3), auth_safe>> \o mac)
Files ==
    { \* no MacData
      [name |-> "no mac", der |-> Der(PfxNode(ContentInfo_write(Data(FileContents)), <<>>))],
      \* MacData with SHA-256
      [name |-> "sha2 mac",
       der |-> Der(PfxNode(ContentInfo_write(Data(FileContents)),
                   MacNode(Apply("AlgorithmIdentifier_write", <<Sha2>>),
                           FileMac("Sha256", 32, FileContents), Salt8, 1)))],
      \* MacData with SHA-1, one iteration
      [name |-> "sha1 mac",
       der |-> Der(PfxNode(ContentInfo_write(Data(FileContents)),
                   MacNode(Apply("AlgorithmIdentifier_write", <<Sha1>>),
                           FileMac("Sha1", 20, FileContents), Salt8, 1)))],
      \* MacData naming a digest the library does not know
      [name |-> "md5 mac",
       der |-> Der(PfxNode(ContentInfo_write(Data(FileContents)),
                   MacNode(write_sequence(<<write_oid("OID_MD5"), write_null>>),
                           Raw(<<1, 2, 3>>), Salt8, 1)))],
      \* MacData naming hmacWithSHA256 (with its NULL parameters) as the digest
      [name |-> "hmac mac",
       der |-> Der(PfxNode(ContentInfo_write(Data(FileContents)),
                   MacNode(write_sequence(<<write_oid("OID_HMAC_WITH_SHA256"), write_null>>),
                           Raw(<<1, 2, 3>>), Salt8, 1)))],
      \* the authenticated safe of a content type the library does not know
      [name |-> "signed",
       der |-> Der(PfxNode(write_sequence(<<write_oid("OID_SIGNED_DATA"),
                                            write_tagged(write_sequence(<<write_int(1)>>))>>),
                   MacNode(Apply("AlgorithmIdentifier_write", <<Sha1>>),
                           FileMac("Sha1", 20, FileContents), Salt8, 1)))],
      \* two shrouded keys in a safe that needs no password
      [name |-> "two keys",
       der |-> Der(PfxNode(ContentInfo_write(Data(construct_der(write_sequence_of(
                       <<ContentInfo_write(Data(FileCertBags)),
                         ContentInfo_write(Data(FileTwoKeyBags))>>)))), <<>>))],
      \* the authenticated safe itself encrypted, under PBES2 ...
      [name |-> "pbes2 safe",
       der |-> Der(PfxNode(EncryptedDataNode(Pbes2Node,
                               Pbes2Encrypted(FileContents, as_bytes(FilePassword))),
                   MacNode(Apply("AlgorithmIdentifier_write", <<Sha1>>),
                           FileMac("Sha1", 20, FileContents), Salt8, 1)))],
      \* ... and under the legacy triple DES
      [name |-> "3des safe",
       der |-> Der(PfxNode(EncryptedDataNode(TdesNode,
                               TdesEncrypted(FileContents, bmp_string(FilePassword))),
                   MacNode(Apply("AlgorithmIdentifier_write", <<Sha1>>),
                           FileMac("Sha1", 20, FileContents), Salt8, 1)))],
      \* ... under an algorithm the library does not know
      [name |-> "other alg safe",
       der |-> Der(PfxNode(EncryptedDataNode(write_sequence(<<write_oid("OID_MD5"), write_null>>),
                               Raw(<<7, 7, 7, 7, 7, 7, 7, 7>>)),
                   MacNode(Apply("AlgorithmIdentifier_write", <<Sha1>>),
                           FileMac("Sha1", 20, FileContents), Salt8, 1)))],
      \* ... and under PBES2 with a PBKDF2 salt that is not given in the file
      [name |-> "other salt safe",
       der |-> Der(PfxNode(EncryptedDataNode(Pbes2OtherSaltNode,
                               Pbes2Encrypted(FileContents, as_bytes(FilePassword))),
                   MacNode(Apply("AlgorithmIdentifier_write", <<Sha1>>),
                           FileMac("Sha1", 20, FileContents), Salt8, 1)))] }

\* ------------------------------------------- values for the write/parse laws
ParamBlobs == {None, Some(NullDer), Some(Der(write_bytes(Raw(<<1>>))))}
PbeParamValues == {[salt |-> Raw(<<1>>), iterations |-> 1], [salt |-> Salt8, iterations |-> ITERATIONS]}
Pbkdf2Values ==
    {Pbkdf2Alg([salt |-> st, iteration_count |-> ic, key_length |-> kl, prf |-> prf]) :
        st \in {Specified(Salt8), OtherSource(Sha1)}, ic \in {1, ITERATIONS},
        kl \in {None, Some(32)},
        prf \in {HmacWithSha1(None), HmacWithSha256(None), HmacWithSha256(Some(NullDer))}}
AlgorithmIdentifierValues ==
    {Sha1, Sha2}
    \cup {HmacWithSha1(b) : b \in ParamBlobs}
    \cup {HmacWithSha256(b) : b \in ParamBlobs}
    \cup {PbewithSHAAnd40BitRC2CBC(q) : q \in PbeParamValues}
    \cup {PbeWithSHAAnd3KeyTripleDESCBC(q) : q \in PbeParamValues}
    \cup {AesCbcPad(Iv16), AesCbcPad(Raw(<<>>))}
    \cup {OtherAlg("OID_MD5", b) : b \in ParamBlobs}
    \cup Pbkdf2Values
    \cup {Pbes2([key_derivation_function |-> kdf, encryption_scheme |-> AesCbcPad(Iv16)]) :
            kdf \in Pbkdf2Values}
\* encoded SafeBags as a reader meets them: each bag kind, with no attribute
\* SET, an empty one, and SETs whose elements come in either order
BagNodes ==
    { <<"OID_CERT_BAG", CertBag_write(X509(Cert1))>>,
      <<"OID_CERT_BAG", CertBag_write(SDSI(<<115>>))>>,
      <<"OID_PKCS8_SHROUDED_KEY_BAG", write_sequence(<<TdesNode, write_bytes(Raw(<<7>>))>>)>>,
      <<"OID_PKCS8_SHROUDED_KEY_BAG", write_sequence(<<Pbes2Node, write_bytes(Raw(<<7>>))>>)>>,
      <<"OID_SECRET_BAG", write_sequence(<<write_int(1)>>)>> }
AttrNodeFriendly == write_sequence(<<write_oid("OID_FRIENDLY_NAME"), <<"SET", <<write_bmp_string(Name1)>>>>>>)
AttrNodeKeyId == write_sequence(<<write_oid("OID_LOCAL_KEY_ID"), <<"SET", <<write_bytes(Raw(<<1>>))>>>>>>)
AttrNodeOther == write_sequence(<<write_oid("OID_PKCS9_OTHER"), <<"SET", <<write_null>>>>>>)
AttrNodes == {AttrNodeFriendly, AttrNodeKeyId, AttrNodeOther}
AttrSets ==
    {<<>>, << <<"SET", <<>>>> >>}
    \cup {<< <<"SET", <<a>>>> >> : a \in AttrNodes}
    \cup {<< <<"SET", <<a, b>>>> >> : a \in AttrNodes, b \in AttrNodes}
SafeBagNodes ==
    {write_sequence(<<write_oid(b[1]), write_tagged(b[2])>> \o attrs) : b \in BagNodes, attrs \in AttrSets}
SafeBagValues == {Apply("SafeBag_parse", <<n>>)[2] : n \in {m \in SafeBagNodes : IsOk(Apply("SafeBag_parse", <<m>>))}}

\* write and parse of a value of the given type
WriteOf(v) ==
    CASE v[1] = "AlgorithmIdentifier" -> Apply("AlgorithmIdentifier_write", <<v[2]>>)
      [] v[1] = "SafeBag" -> Apply("SafeBag_write", <<v[2]>>)
      [] v[1] = "PFX" -> Apply("PFX_write", <<v[2]>>)
ParseOf(type, bytes) ==
    CASE type = "AlgorithmIdentifier" -> parse_ber(bytes, "AlgorithmIdentifier_parse")
      [] type = "SafeBag" -> parse_ber(bytes, "SafeBag_parse")
      [] type = "PFX" -> PFX_parse(bytes)

\* ------------------------------------------------------------------ state
\* args:   the arguments of the build, or the file that was read
\* built:  what PFX::new / new_with_cas returned
\* der:    the bytes at hand: to_der() of the built PFX, or the file
\* pfx:    what PFX::parse returned for der
\* origin: where pfx comes from: "none", "built", "file", "tampered", "value"
\* ret:    the accessor call the caller holds the result of: [op, password, val]
\* x:      a value taken for writing, with its type
\* enc:    the bytes written for x
\* y:      what parse returned for enc
VARIABLES args, built, der, pfx, origin, ret, x, enc, y
vars == <<padLuck, debug_assertions, args, built, der, pfx, origin, ret, x, enc, y>>

NoArgs == <<"NoArgs">>
NotBuilt == <<"NotBuilt">>
NotParsed == <<"NotParsed">>
NoValue == <<"NoValue">>
NoCall == [op |-> "none", password |-> <<>>, val |-> None]

Init ==
    /\ padLuck \in BOOLEAN
    /\ debug_assertions \in BOOLEAN
    /\ args = NoArgs
    /\ built = NotBuilt
    /\ der = None
    /\ pfx = NotParsed
    /\ origin = "none"
    /\ ret = NoCall
    /\ x = NoValue
    /\ enc = None
    /\ y = NoValue

Args(p, cert_der, key_der, cas, password, name, rnd) ==
    <<"Args", [Encryptor |-> p[1], KDF |-> p[2], cert_der |-> cert_der, key_der |-> key_der,
               ca_der_list |-> cas, password |-> password, name |-> name, rnd |-> rnd]>>

\* PFX::new::<Encryptor, KDF>(cert_der, key_der, ca_der, password, name)
New ==
    /\ origin = "none"
    /\ \E p \in Pipelines, key_der \in Keys, ca_der \in {None, Some(Raw(<<31>>))},
          password \in Passwords, name \in Names, rnd \in RandStreams :
          /\ args' = Args(p, Cert1, key_der, IF IsSome(ca_der) THEN <<ca_der[2]>> ELSE <<>>,
                          password, name, rnd)
          /\ built' = PFX_new(p[1], p[2], Cert1, key_der, ca_der, password, name, rnd)
    /\ origin' = "built"
    /\ UNCHANGED <<padLuck, debug_assertions, der, pfx, ret, x, enc, y>>

\* PFX::new_with_cas::<Encryptor, KDF>(cert_der, key_der, ca_der_list, password, name)
NewWithCas ==
    /\ origin = "none"
    /\ \E p \in Pipelines, key_der \in Keys, cas \in CaLists,
          password \in Passwords, rnd \in RandStreams :
          /\ args' = Args(p, Cert1, key_der, cas, password, Name1, rnd)
          /\ built' = Apply("PFX_new_with_cas", <<p[1], p[2], Cert1, key_der, cas, password, Name1, rnd>>)
    /\ origin' = "built"
    /\ UNCHANGED <<padLuck, debug_assertions, der, pfx, ret, x, enc, y>>

\* a file of another producer is read into memory
ReadFile ==
    /\ origin = "none"
    /\ \E f \in Files :
          /\ args' = <<"File", f.name>>
          /\ der' = Some(f.der)
    /\ origin' = "file"
    /\ UNCHANGED <<padLuck, debug_assertions, built, pfx, ret, x, enc, y>>

\* pfx.to_der() of the PFX the build returned
ToDer ==
    /\ IsSome(built) /\ der = None
    /\ der' = Some(PFX_to_der(built[2]))
    /\ UNCHANGED <<padLuck, debug_assertions, args, built, pfx, origin, ret, x, enc, y>>

\* PFX::parse(der)
Parse ==
    /\ IsSome(der) /\ pfx = NotParsed
    /\ pfx' = PFX_parse(der[2])
    /\ UNCHANGED <<padLuck, debug_assertions, args, built, der, origin, ret, x, enc, y>>

\* one byte of the auth_safe content of the parsed PFX is changed, mac_data kept
Tamper ==
    /\ IsOk(pfx) /\ origin = "built" /\ ret = NoCall /\ x = NoValue
    /\ pfx[2].auth_safe[1] = "Data"
    /\ \E pos \in (1..MaxTamperPos) \cup {BLen(pfx[2].auth_safe[2])}, mask \in {255} :
          pfx' = Ok([pfx[2] EXCEPT !.auth_safe = Data(Xor(pfx[2].auth_safe[2], pos, mask))])
    /\ origin' = "tampered"
    /\ UNCHANGED <<padLuck, debug_assertions, args, built, der, ret, x, enc, y>>

\* a call of an accessor on the parsed PFX; the caller holds one result at a time
Call(op, password, val) ==
    /\ ret' = [op |-> op, password |-> password, val |-> val]
    /\ UNCHANGED <<padLuck, debug_assertions, args, built, der, pfx, origin, x, enc, y>>
CanCall == IsOk(pfx) /\ ret = NoCall /\ x = NoValue

\* pfx.verify_mac(password)
VerifyMac ==
    /\ CanCall
    /\ \E password \in ProbePasswords : Call("verify_mac", password, Apply("verify_mac", <<pfx[2], password>>))
\* pfx.bags(password)
Bags ==
    /\ CanCall
    /\ \E password \in ProbePasswords : Call("bags", password, Apply("bags", <<pfx[2], password>>))
\* pfx.cert_x509_bags(password)
CertX509Bags ==
    /\ CanCall
    /\ \E password \in ProbePasswords : Call("cert_x509_bags", password, cert_x509_bags(pfx[2], password))
\* pfx.cert_sdsi_bags(password)
CertSdsiBags ==
    /\ CanCall
    /\ \E password \in ProbePasswords : Call("cert_sdsi_bags", password, cert_sdsi_bags(pfx[2], password))
\* pfx.key_bags(password)
KeyBags ==
    /\ CanCall
    /\ \E password \in ProbePasswords : Call("key_bags", password, Apply("key_bags", <<pfx[2], password>>))
\* the caller drops the result it holds (an abort is final)
Drop ==
    /\ ret # NoCall /\ ~IsPanic(ret.val)
    /\ ret' = NoCall
    /\ UNCHANGED <<padLuck, debug_assertions, args, built, der, pfx, origin, x, enc, y>>

\* an AlgorithmIdentifier value is made
TakeAlgorithmIdentifier ==
    /\ origin = "none"
    /\ \E v \in AlgorithmIdentifierValues : x' = <<"AlgorithmIdentifier", v>>
    /\ origin' = "value"
    /\ UNCHANGED <<padLuck, debug_assertions, args, built, der, pfx, ret, enc, y>>
\* SafeBag::parse of an encoded bag
TakeSafeBag ==
    /\ origin = "none"
    /\ \E v \in SafeBagValues : x' = <<"SafeBag", v>>
    /\ origin' = "value"
    /\ UNCHANGED <<padLuck, debug_assertions, args, built, der, pfx, ret, enc, y>>
\* the parsed PFX is the value to write
TakePfx ==
    /\ IsOk(pfx) /\ origin \in {"built", "file"} /\ ret = NoCall /\ x = NoValue
    /\ x' = <<"PFX", pfx[2]>>
    /\ UNCHANGED <<padLuck, debug_assertions, args, built, der, pfx, origin, ret, enc, y>>
\* x.write(...) under yasna::construct_der (to_der for a PFX)
Write ==
    /\ x # NoValue /\ enc = None
    /\ enc' = Some(construct_der(WriteOf(x)))
    /\ UNCHANGED <<padLuck, debug_assertions, args, built, der, pfx, origin, ret, x, y>>
\* parse of the bytes written
Reparse ==
    /\ IsSome(enc) /\ y = NoValue
    /\ y' = ParseOf(x[1], enc[2])
    /\ UNCHANGED <<padLuck, debug_assertions, args, built, der, pfx, origin, ret, x, enc>>

Next ==
    \/ New
    \/ NewWithCas
    \/ ReadFile
    \/ ToDer
    \/ Parse
    \/ Tamper
    \/ VerifyMac
    \/ Bags
    \/ CertX509Bags
    \/ CertSdsiBags
    \/ KeyBags
    \/ Drop
    \/ TakeAlgorithmIdentifier
    \/ TakeSafeBag
    \/ TakePfx
    \/ Write
    \/ Reparse

Spec == Init /\ [][Next]_vars


\* ------------------------------------------------ calls of single functions
\* The crate-private functions are called with arguments of every shape their
\* parameter types admit; x holds the arguments and y the value returned.
Plain1 == Raw(<<1, 2, 3>>)
Iv8 == Raw(<<9, 9, 9, 9, 9, 9, 9, 9>>)
\* passwords as the bytes handed down: "", "a", and bytes that are not UTF-8
PwBytes == {as_bytes(<<>>), as_bytes(<<97>>), Raw(<<255>>)}
KeyLengths == {None, Some(16), Some(24), Some(32)}
KdfInputs ==
    {Pbkdf2Alg([salt |-> st, iteration_count |-> ITERATIONS, key_length |-> kl, prf |-> prf]) :
        st \in {Specified(Salt8), OtherSource(Sha1)}, kl \in KeyLengths,
        prf \in {HmacWithSha1(None), HmacWithSha256(None), Sha1}}
    \cup {Sha1}
SchemeInputs == {AesCbcPad(Iv16), AesCbcPad(Iv8), AesCbcPad(Raw(<<>>)), Sha2}
\* AES-CBC of the given key length (aes::Aes128 / Aes192 / Aes256 under cbc)
AesOf(keylen) == CASE keylen = 16 -> "Aes128" [] keylen = 24 -> "Aes192" [] OTHER -> "Aes256"
\* Plain1 encrypted as a PBES2 producer does for these parameters and this
\* password: PBKDF2 over the password bytes, AES-CBC of the key length, PKCS#7
Pbes2CipherText(kdf, scheme, password) ==
    LET q == kdf[2]
        keylen == IF IsSome(q.key_length) THEN q.key_length[2] ELSE 32
        D == IF q.prf[1] = "HmacWithSha1" THEN "Sha1" ELSE "Sha256"
    IN encrypt_padded(AesOf(keylen),
                      pbkdf2_hmac(D, password, q.salt[2], q.iteration_count, keylen),
                      scheme[2], Plain1)
\* whether the arguments are ones PBES2 decryption is defined for
Pbes2Supported(kdf, scheme) ==
    /\ kdf[1] = "Pbkdf2" /\ kdf[2].salt[1] = "Specified"
    /\ kdf[2].prf[1] \in {"HmacWithSha1", "HmacWithSha256"}
    /\ scheme[1] = "AesCbcPad"
Pbes2CipherTexts(kdf, scheme, password) ==
    {Raw(<<>>), Raw(<<7, 7, 7>>)}
    \cup (IF Pbes2Supported(kdf, scheme) THEN {Pbes2CipherText(kdf, scheme, password)} ELSE {})

\* pbes2_decrypt(key_derivation_function, encryption_scheme, cipher_text, password)
CallPbes2Decrypt ==
    /\ origin = "none"
    /\ \E kdf \in KdfInputs, scheme \in SchemeInputs, password \in PwBytes :
          \E ct \in Pbes2CipherTexts(kdf, scheme, password) :
             /\ x' = <<"pbes2_decrypt", [key_derivation_function |-> kdf, encryption_scheme |-> scheme,
                                         cipher_text |-> ct, password |-> password]>>
             /\ y' = Apply("pbes2_decrypt", <<kdf, scheme, ct, password>>)
    /\ origin' = "call"
    /\ UNCHANGED <<padLuck, debug_assertions, args, built, der, pfx, ret, enc>>

\* the algorithm identifiers decrypt_pbe is called on: every variant
PbeAlgInputs ==
    {Sha1, Sha2, HmacWithSha1(None), HmacWithSha256(Some(NullDer)), AesCbcPad(Iv16),
     Pbkdf2Alg([salt |-> Specified(Salt8), iteration_count |-> ITERATIONS,
                key_length |-> None, prf |-> HmacWithSha256(None)]),
     OtherAlg("OID_MD5", None), OtherAlg("OID_MD5", Some(NullDer)),
     PbewithSHAAnd40BitRC2CBC([salt |-> Salt8, iterations |-> ITERATIONS]),
     PbeWithSHAAnd3KeyTripleDESCBC([salt |-> Salt8, iterations |-> ITERATIONS]),
     Pbes2([key_derivation_function |-> Pbkdf2Alg([salt |-> Specified(Salt8),
                 iteration_count |-> ITERATIONS, key_length |-> None, prf |-> HmacWithSha256(None)]),
            encryption_scheme |-> AesCbcPad(Iv16)])}
\* whether alg is one of the two legacy PBE schemes
IsLegacyPbe(alg) == alg[1] \in {"PbewithSHAAnd40BitRC2CBC", "PbeWithSHAAnd3KeyTripleDESCBC"}
\* Plain1 encrypted under the legacy scheme alg with the password string pw
LegacyCipherText(alg, pw) ==
    IF alg[1] = "PbewithSHAAnd40BitRC2CBC"
    THEN pbe_with_sha_and40_bit_rc2_cbc_encrypt("Sha1", Plain1, bmp_string(pw),
                                                alg[2].salt, alg[2].iterations)[2]
    ELSE pbe_with_sha_and3_key_triple_des_cbc_encrypt(Plain1, bmp_string(pw),
                                                      alg[2].salt, alg[2].iterations)[2]
\* ciphertexts: empty, of a length that is no multiple of the block size, one
\* block of arbitrary bytes, and for a legacy scheme Plain1 encrypted under "a"
PbeCipherTexts(alg) ==
    {Raw(<<>>), Raw(<<7, 7, 7>>), Raw(<<7, 7, 7, 7, 7, 7, 7, 7>>)}
    \cup (IF IsLegacyPbe(alg) THEN {LegacyCipherText(alg, <<97>>)} ELSE {})

\* AlgorithmIdentifier::decrypt_pbe(&self, ciphertext, password)
CallDecryptPbe ==
    /\ origin = "none"
    /\ \E alg \in PbeAlgInputs, password \in PwBytes :
          \E ct \in PbeCipherTexts(alg) :
             /\ x' = <<"decrypt_pbe", [alg |-> alg, ciphertext |-> ct, password |-> password]>>
             /\ y' = Apply("decrypt_pbe", <<alg, ct, password>>)
    /\ origin' = "call"
    /\ UNCHANGED <<padLuck, debug_assertions, args, built, der, pfx, ret, enc>>

\* ------------------------------------------- the PKCS12-SHA KDF over bytes
\* The digest is a black box to the KDF.  Over bytes it is stood for by a
\* position-sensitive checksum of the input spread over the digest length of
\* D, so that the blocks A1, A2, ... and the sums I + B + 1 are bytes.
RECURSIVE WeightedSum(_, _, _)
WeightedSum(s, lo, hi) ==
    IF lo > hi THEN 0
    ELSE IF lo = hi THEN ((lo % 7) + 1) * s[lo]
    ELSE LET mid == (lo + hi) \div 2
         IN (WeightedSum(s, lo, mid) + WeightedSum(s, mid + 1, hi)) % 65521
Checksum(s) == <<WeightedSum(s, 1, Len(s)) % 251, WeightedSum(s, 1, Len(s)) % 241>>
\* fn sha<D>(bytes)
sha_bytes(D, bytes) ==
    LET c == Checksum(bytes)
    IN Strict([j \in 1..DigestLen(D) |->
                  (c[1] * j + c[2] * (j + 3) + 7 * j * j + Len(bytes)) % 256])
\* for _ in 0..iterations { ai = sha::<D>(&ai) }
RECURSIVE HashLoop(_, _, _)
HashLoop(D, ai, n) == IF n <= 0 THEN ai ELSE HashLoop(D, sha_bytes(D, ai), n - 1)
\* fn pbepkcs12shacore<D>(d, i, a, iterations): the block ai, which the
\* caller appends to a
pbepkcs12shacore(D, d, i, iterations) == HashLoop(D, d \o i, iterations)
\* (variant) the carry is set to 1 at the last byte of I only, not at the
\* last byte of every block
AddStep_noreset(b, st) ==
    LET i == st[1]
        i3 == st[2]
        inc1 == IF i3 = 0 THEN 1 ELSE st[3]
        s2 == i[Len(i) - i3] + b[Len(b) - (i3 % Len(b))]
        s3 == (s2 % 256) + inc1
    IN <<Strict([i EXCEPT ![Len(i) - i3] = s3 % 256]), i3 + 1,
         IF s2 >= 256 \/ s3 >= 256 THEN 1 ELSE 0>>
\* one turn of the loop `for (i3, (ii, bi)) in i_b_iter.enumerate()` on
\* st = <<i, i3, inc>>: i is walked from its last byte, b from its last byte
\* cyclically; inc is the carry
AddStep(b, st) ==
    LET i == st[1]
        i3 == st[2]
        inc1 == IF i3 % V = 0 THEN 1 ELSE st[3]
        \* ii.overflowing_add(*bi), then ii2.overflowing_add(inc)
        s2 == i[Len(i) - i3] + b[Len(b) - (i3 % Len(b))]
        s3 == (s2 % 256) + inc1
    IN <<Strict([i EXCEPT ![Len(i) - i3] = s3 % 256]), i3 + 1,
         IF s2 >= 256 \/ s3 >= 256 THEN 1 ELSE 0>>
\* n turns of the loop
RECURSIVE AddSteps(_, _, _)
AddSteps(b, st, n) == IF n = 0 THEN st ELSE AddSteps(b, AddStep(b, st), n - 1)
\* the whole loop, eight turns at a time (Len(i) is a multiple of V)
RECURSIVE AddLoop(_, _, _, _)
AddLoop(i, b, i3, inc) ==
    IF i3 >= Len(i) THEN i
    ELSE LET st == AddSteps(b, <<i, i3, inc>>, 8)
         IN AddLoop(st[1], b, st[2], st[3])
\* the loop `for _ in 1..c` with n rounds left: <<i, a>> after it
RECURSIVE KdfRounds(_, _, _, _, _, _)
KdfRounds(D, d, i, a, r, n) ==
    IF n <= 0 THEN <<i, a>>
    ELSE LET ai == pbepkcs12shacore(D, d, i, r)
             b == CycleTake(ai, V)
         IN KdfRounds(D, d, AddLoop(i, b, 0, 1), a \o ai, r, n - 1)
\* fn pbepkcs12sha<D>(pass, salt, iterations, id, size) over bytes
pbepkcs12sha_bytes(D, pass, salt, iterations, id, size) ==
    LET d == Strict([k \in 1..V |-> id])
        s == CycleTake(salt, get_len(Len(salt)))
        p == CycleTake(pass, get_len(Len(pass)))
        c == (size + U - 1) \div U
        st == KdfRounds(D, d, s \o p, <<>>, iterations, c - 1)
        a == st[2] \o pbepkcs12shacore(D, d, st[1], iterations)
    IN SubSeq(a, 1, IF size < Len(a) THEN size ELSE Len(a))

MaxKdfIterations == 2
KdfSizes == {0, 1, 20, 21, 32, 41}
KdfBytes == {<<>>, <<0, 0>>, <<0, 97, 0, 0>>, <<255, 254, 253>>}
\* pbepkcs12sha::<D>(pass, salt, iterations, id, size)
CallPbepkcs12sha ==
    /\ origin = "none"
    /\ \E D \in {"Sha1", "Sha256"}, pass \in KdfBytes, salt \in KdfBytes,
          iterations \in 1..MaxKdfIterations, id \in {1, 3}, size \in KdfSizes :
          /\ x' = <<"pbepkcs12sha", [D |-> D, pass |-> pass, salt |-> salt,
                                     iterations |-> iterations, id |-> id, size |-> size]>>
          /\ y' = pbepkcs12sha_bytes(D, pass, salt, iterations, id, size)
    /\ origin' = "call"
    /\ UNCHANGED <<padLuck, debug_assertions, args, built, der, pfx, ret, enc>>

MaxBmpLen == 2
\* U+0000, 'B', the euro sign (BMP) and U+1F600 (outside the BMP)
BmpChars == {0, 66, 8364, 128512}
Beavis == <<66, 101, 97, 118, 105, 115>>
BmpStrings == SeqsUpTo(BmpChars, MaxBmpLen) \cup {Beavis}
\* bmp_string(s)
CallBmpString ==
    /\ origin = "none"
    /\ \E s \in BmpStrings :
          /\ x' = <<"bmp_string", [s |-> s]>>
          /\ y' = bmp_string(s)
    /\ origin' = "call"
    /\ UNCHANGED <<padLuck, debug_assertions, args, built, der, pfx, ret, enc>>

\* the attributes a reader meets: each OID with an empty value set, one
\* value of each type, and two values
AttrOids == {"OID_FRIENDLY_NAME", "OID_LOCAL_KEY_ID", "OID_PKCS9_OTHER", "OID_MD5"}
AttrValues == {write_bmp_string(Name1), write_bytes(Raw(<<1>>)), write_null}
AttrValueLists == {<<>>} \cup {<<v>> : v \in AttrValues}
                  \cup {<<v, w>> : v \in AttrValues, w \in AttrValues}
\* PKCS12Attribute::parse on SEQUENCE { oid, SET OF vals }
CallAttributeParse ==
    /\ origin = "none"
    /\ \E oid \in AttrOids, vals \in AttrValueLists :
          /\ x' = <<"PKCS12Attribute_parse", [oid |-> oid, vals |-> vals]>>
          /\ y' = Apply("PKCS12Attribute_parse",
                        <<write_sequence(<<write_oid(oid), <<"SET", vals>>>>)>>)
    /\ origin' = "call"
    /\ UNCHANGED <<padLuck, debug_assertions, args, built, der, pfx, ret, enc>>

PureNext ==
    \/ CallPbes2Decrypt
    \/ CallDecryptPbe
    \/ CallPbepkcs12sha
    \/ CallBmpString
    \/ CallAttributeParse

PureSpec == Init /\ [][PureNext]_vars


\* ------------------------------------------------------------- properties
Modern == <<"AesCbcDataEncryptor", "Pbkdf2">>
Legacy == <<"PbeWithShaAnd40BitRc2CbcEncryptor", "PbeWithShaAnd40BitRc2CbcEncryptKeyDeriver">>
\* the PFX at hand was built from args and went through to_der and parse unchanged
FromBuild == origin = "built" /\ IsSome(built)
PipelineOf(a) == <<a[2].Encryptor, a[2].KDF>>
Called(op) == ret.op = op

\* C1: for each pipeline, cert, key (the empty one too), CA list, password and
\* name, when the build returns a PFX, PFX::parse(pfx.to_der()) succeeds and on
\* the parsed PFX cert_x509_bags(password) is [cert] followed by the CAs in
\* the order given and key_bags(password) is [key].
C1_BuildParseRoundTrip ==
    FromBuild =>
        /\ pfx # NotParsed => IsOk(pfx)
        /\ Called("cert_x509_bags") /\ ret.password = args[2].password
              => ret.val = Ok(<<args[2].cert_der>> \o args[2].ca_der_list)
        /\ Called("key_bags") /\ ret.password = args[2].password
              => ret.val = Ok(<<args[2].key_der>>)
\* the legacy pipeline, the empty password and two CAs: the three certificates come back in order
C1_Witness ==
    /\ FromBuild /\ PipelineOf(args) = Legacy
    /\ args[2].password = <<>> /\ Len(args[2].ca_der_list) = 2
    /\ Called("cert_x509_bags") /\ ret.password = <<>>
    /\ ret.val = Ok(<<Cert1, Raw(<<31>>), Raw(<<32>>)>>)

\* C2: for any password p and either pipeline, verify_mac(p) is true on the
\* PFX parsed from the DER of a PFX built with p.
C2_MacAcceptsBuildPassword ==
    FromBuild /\ Called("verify_mac") /\ ret.password = args[2].password
        => ret.val = Bool(TRUE)
\* the modern pipeline and the empty password
C2_Witness ==
    /\ FromBuild /\ PipelineOf(args) = Modern /\ args[2].password = <<>>
    /\ Called("verify_mac") /\ ret.password = <<>> /\ ret.val = Bool(TRUE)

\* C3: for any two different passwords p and p' and either pipeline,
\* verify_mac(p') is false on the parsed PFX built with p, also when the BMP
\* encodings of p and p' pad to the same block of the PKCS12-SHA KDF.
C3_MacRejectsOtherPassword ==
    FromBuild /\ Called("verify_mac") /\ ret.password # args[2].password
        => ret.val = Bool(FALSE)
\* built with "", verify_mac("\u{0}") is true
C3_Witness ==
    /\ FromBuild /\ args[2].password = <<>>
    /\ Called("verify_mac") /\ ret.password = <<0>> /\ ret.val = Bool(TRUE)

\* C4: on a PFX of the builder with password p, after any one byte of the
\* auth_safe content is changed (mac_data kept), verify_mac(p) is false.
C4_TamperDetected ==
    origin = "tampered" /\ Called("verify_mac") /\ ret.password = args[2].password
        => ret.val = Bool(FALSE)
\* the last byte of the content changed, and the build password rejected
C4_Witness ==
    /\ origin = "tampered" /\ pfx[2].auth_safe[2][1] = "xor"
    /\ pfx[2].auth_safe[2][3] = BLen(built[2].auth_safe[2])
    /\ pfx[2].mac_data = built[2].mac_data
    /\ Called("verify_mac") /\ ret.password = args[2].password /\ ret.val = Bool(FALSE)

\* C5: on a PFX of either pipeline built with p, key_bags(p') and
\* cert_x509_bags(p') with p' different from p return an Err value: no abort
\* and no Ok, whatever padding the wrongly decrypted ciphertext ends in.
C5_WrongPasswordIsErr ==
    FromBuild /\ (Called("key_bags") \/ Called("cert_x509_bags"))
              /\ ret.password # args[2].password
        => IsErr(ret.val)
\* modern pipeline, built with "", key_bags("a") aborts on the padding check
C5_Witness ==
    /\ FromBuild /\ PipelineOf(args) = Modern /\ args[2].password = <<>>
    /\ Called("key_bags") /\ ret.password = <<97>> /\ ret.val = Panic("failed")

\* C6: every PFX the build returns has version 3, mac_data present with
\* digest algorithm Sha1, an 8-byte salt, 2048 iterations and a 20-byte
\* digest, and auth_safe = Data whose bytes are the DER of a sequence of
\* exactly two ContentInfo: EncryptedData holding the cert bags, then Data
\* holding the single key bag.
C6_BuiltStructure ==
    \* checked where the build returns: built is not assigned again
    IsSome(built) /\ der = None =>
        LET p == built[2]
            contents == parse_ber(p.auth_safe[2], "ContentInfos_read")
            certs == parse_ber(ContentInfo_data(contents[2][1], as_bytes(args[2].password))[2],
                               "SafeBags_read")
            keys == parse_ber(contents[2][2][2], "SafeBags_read")
        IN /\ p.version = 3
           /\ IsSome(p.mac_data)
           /\ p.mac_data[2].mac.digest_algorithm = Sha1
           /\ BLen(p.mac_data[2].salt) = 8
           /\ p.mac_data[2].iterations = 2048
           /\ BLen(p.mac_data[2].mac.digest) = 20
           /\ p.auth_safe[1] = "Data"
           /\ IsOk(contents) /\ Len(contents[2]) = 2
           /\ contents[2][1][1] = "EncryptedData"
           /\ contents[2][2][1] = "Data"
           /\ IsOk(certs) /\ Len(certs[2]) = 1 + Len(args[2].ca_der_list)
           /\ \A k \in 1..Len(certs[2]) : certs[2][k].bag[1] = "CertBag"
           /\ IsOk(keys) /\ Len(keys[2]) = 1
           /\ keys[2][1].bag[1] = "Pkcs8ShroudedKeyBag"
\* a PFX built by the modern pipeline with two CAs
C6_Witness ==
    /\ IsSome(built) /\ der = None /\ PipelineOf(args) = Modern /\ Len(args[2].ca_der_list) = 2
    /\ built[2].auth_safe[1] = "Data" /\ IsSome(built[2].mac_data)

\* C7: verify_mac(password) is true when the PFX has no mac_data; with
\* mac_data it is true only if the HMAC the digest algorithm selects (Sha1:
\* HMAC-SHA-1, 20-byte key; Sha2: HMAC-SHA-256, 32-byte key; key from the
\* PKCS12-SHA KDF with id 3, the salt, the iterations and the BMP password)
\* over the auth_safe content equals the stored digest; it is false for any
\* other digest algorithm and when auth_safe yields no content.
C7_VerifyMacSemantics ==
    IsOk(pfx) /\ Called("verify_mac") =>
        LET p == pfx[2]
            m == p.mac_data[2]
            alg == m.mac.digest_algorithm
            D == IF alg = Sha1 THEN "Sha1" ELSE "Sha256"
            key == Apply("pbepkcs12sha", <<D, bmp_string(ret.password), m.salt, m.iterations, 3, DigestLen(D)>>)
        IN /\ ret.val \in {Bool(TRUE), Bool(FALSE)}
           /\ IsNone(p.mac_data) => ret.val = Bool(TRUE)
           /\ IsSome(p.mac_data) /\ alg \notin {Sha1, Sha2} => ret.val = Bool(FALSE)
           /\ IsSome(p.mac_data) /\ p.auth_safe[1] = "OtherContext" => ret.val = Bool(FALSE)
           /\ IsSome(p.mac_data) /\ alg \in {Sha1, Sha2} /\ p.auth_safe[1] = "Data"
                 => ret.val = Bool(hmac(D, key, p.auth_safe[2]) = m.mac.digest)
\* a file whose MacData names another digest: in a debug build the call aborts
C7_Witness ==
    /\ IsOk(pfx) /\ args = <<"File", "md5 mac">> /\ debug_assertions
    /\ Called("verify_mac") /\ ret.val = Panic("debug_assert")

\* C8: for every AlgorithmIdentifier value x of every variant,
\* AlgorithmIdentifier::parse of the output of write(x) is x; in particular
\* the parameter blob of the HMAC variants is the same bytes after the round trip.
C8_AlgorithmIdentifierRoundTrip ==
    x[1] = "AlgorithmIdentifier" /\ y # NoValue => y = Ok(x[2])
\* HmacWithSha256 with NULL parameters comes back with the NULL inside an OCTET STRING
C8_Witness ==
    /\ x = <<"AlgorithmIdentifier", HmacWithSha256(Some(NullDer))>>
    /\ y = Ok(HmacWithSha256(Some(Der(write_bytes(NullDer)))))

\* C9: for every SafeBag x that SafeBag::parse produced (any bag kind, any
\* number of attributes in any input order, the empty list too), parsing the
\* output of write(x) yields a SafeBag equal to x: same bag and same attribute list.
C9_SafeBagRoundTrip ==
    x[1] = "SafeBag" /\ y # NoValue => y = Ok(x[2])
\* a key bag shrouded under PBES2 whose prf carries NULL parameters, no
\* attributes: the bag that comes back differs
C9_Witness ==
    /\ x[1] = "SafeBag" /\ x[2].attributes = <<>>
    /\ x[2].bag[1] = "Pkcs8ShroudedKeyBag" /\ x[2].bag[2].encryption_algorithm[1] = "Pbes2"
    /\ IsOk(y) /\ y[2].attributes = <<>> /\ y[2].bag # x[2].bag

\* C10: an element whose OID the library does not know is parsed into
\* OtherContext / OtherBagKind / OtherAlg / Other with the OID and the raw
\* inner DER, and written back unchanged, so for a PFX parsed from DER input
\* PFX::parse(pfx.to_der()) is an equal PFX and to_der of it is the same bytes.
C10_PfxRoundTrip ==
    /\ IsOk(pfx) /\ args = <<"File", "signed">>
          => pfx[2].auth_safe = OtherContext("OID_SIGNED_DATA", Der(write_sequence(<<write_int(1)>>)))
    /\ IsOk(pfx) /\ args = <<"File", "md5 mac">>
          => pfx[2].mac_data[2].mac.digest_algorithm = OtherAlg("OID_MD5", Some(NullDer))
    /\ x[1] = "PFX" /\ y # NoValue
          => IsOk(y) /\ y[2] = x[2] /\ PFX_to_der(y[2]) = enc[2]
\* the file whose MacData names hmacWithSHA256: the PFX that comes back differs
C10_Witness ==
    /\ args = <<"File", "hmac mac">> /\ x[1] = "PFX"
    /\ IsOk(y) /\ y[2] # x[2] /\ y[2].auth_safe = x[2].auth_safe

\* C11: pbes2_decrypt returns None, and does not abort, for every input in
\* which the key derivation function is not Pbkdf2, the encryption scheme is
\* not AesCbcPad, the PBKDF2 salt is not Specified, the PRF is neither
\* HmacWithSha1 nor HmacWithSha256, or the IV is not 16 bytes long.
C11_Pbes2UnsupportedIsNone ==
    x[1] = "pbes2_decrypt" =>
        LET kdf == x[2].key_derivation_function
            scheme == x[2].encryption_scheme
        IN (~Pbes2Supported(kdf, scheme) \/ BLen(scheme[2]) # 16) => y = None
\* PBKDF2 with HMAC-SHA-256 and no key_length, AES-CBC with an 8-byte IV: the call aborts
C11_Witness ==
    /\ x[1] = "pbes2_decrypt"
    /\ Pbes2Supported(x[2].key_derivation_function, x[2].encryption_scheme)
    /\ x[2].key_derivation_function[2].key_length = None
    /\ x[2].encryption_scheme = AesCbcPad(Iv8)
    /\ y = Panic("iv length")

\* C17: pbes2_decrypt derives a key of key_length bytes when key_length is
\* present and of 32 when it is absent, and decrypts with AES-CBC of that key
\* length: for key_length 16, 24, 32 or absent, a ciphertext made with the same
\* PBKDF2 parameters, IV and password under AES of that key length with
\* PKCS#7 padding decrypts to Some(plaintext).
C17_Pbes2KeyLength ==
    x[1] = "pbes2_decrypt" =>
        LET kdf == x[2].key_derivation_function
            scheme == x[2].encryption_scheme
        IN (/\ Pbes2Supported(kdf, scheme) /\ BLen(scheme[2]) = 16
            /\ x[2].cipher_text = Pbes2CipherText(kdf, scheme, x[2].password))
           => y = Some(Plain1)
\* key_length = 16 and a ciphertext made with AES-128: the call aborts
C17_Witness ==
    /\ x[1] = "pbes2_decrypt"
    /\ Pbes2Supported(x[2].key_derivation_function, x[2].encryption_scheme)
    /\ x[2].key_derivation_function[2].key_length = Some(16)
    /\ x[2].encryption_scheme = AesCbcPad(Iv16)
    /\ x[2].cipher_text = Pbes2CipherText(x[2].key_derivation_function, x[2].encryption_scheme, x[2].password)
    /\ y = Panic("key length")
\* with key_length absent or 32 the plaintext comes back
C17_KeyLength32 ==
    x[1] = "pbes2_decrypt" =>
        LET kdf == x[2].key_derivation_function
            scheme == x[2].encryption_scheme
        IN (/\ Pbes2Supported(kdf, scheme) /\ BLen(scheme[2]) = 16
            /\ kdf[2].key_length \in {None, Some(32)}
            /\ x[2].cipher_text = Pbes2CipherText(kdf, scheme, x[2].password))
           => y = Some(Plain1)

\* C12: decrypt_pbe returns None, and does not abort, for both legacy schemes
\* on any primitive failure (a ciphertext whose length is no multiple of the
\* block size, invalid PKCS#7 padding after decryption, password bytes that
\* are not UTF-8), for every identifier that is not a PBE scheme, and for an
\* unknown algorithm parsed as OtherAlg.
C12_DecryptPbeNone ==
    x[1] = "decrypt_pbe" =>
        LET alg == x[2].alg
            ct == x[2].ciphertext
            str == from_utf8(x[2].password)
        IN /\ IsLegacyPbe(alg) => ~IsPanic(y)
           /\ IsLegacyPbe(alg) /\ (BLen(ct) % 8 # 0 \/ IsErr(str)) => y = None
           \* a wrong key, and the last block is not a valid padding
           /\ IsLegacyPbe(alg) /\ IsOk(str) /\ ~padLuck /\ ct # LegacyCipherText(alg, str[2])
                 => y = None
           /\ alg[1] \in {"Sha1", "Sha2", "HmacWithSha1", "HmacWithSha256", "Pbkdf2", "AesCbcPad"}
                 => y = None
           /\ alg[1] = "OtherAlg" => y = None
\* an OtherAlg identifier in a build with debug assertions: the call aborts
C12_Witness ==
    /\ x[1] = "decrypt_pbe" /\ x[2].alg = OtherAlg("OID_MD5", Some(NullDer))
    /\ debug_assertions /\ y = Panic("debug_assert")
\* the claim without its last case holds: the legacy schemes and the
\* identifiers that are no PBE scheme return None
C12_KnownAlgorithms ==
    x[1] = "decrypt_pbe" =>
        LET alg == x[2].alg
            ct == x[2].ciphertext
            str == from_utf8(x[2].password)
        IN /\ IsLegacyPbe(alg) => ~IsPanic(y)
           /\ IsLegacyPbe(alg) /\ (BLen(ct) % 8 # 0 \/ IsErr(str)) => y = None
           /\ IsLegacyPbe(alg) /\ IsOk(str) /\ ~padLuck /\ ct # LegacyCipherText(alg, str[2])
                 => y = None
           /\ IsLegacyPbe(alg) /\ IsOk(str) /\ ct = LegacyCipherText(alg, str[2])
                 => y = Some(Plain1)
           /\ alg[1] \in {"Sha1", "Sha2", "HmacWithSha1", "HmacWithSha256", "Pbkdf2", "AesCbcPad"}
                 => y = None

\* the accessor op applied to the PFX p
Accessor(op, p, password) ==
    CASE op = "bags" -> Apply("bags", <<p, password>>)
      [] op = "cert_x509_bags" -> cert_x509_bags(p, password)
      [] op = "cert_sdsi_bags" -> cert_sdsi_bags(p, password)
      [] op = "key_bags" -> Apply("key_bags", <<p, password>>)
\* files whose protected content is the same and a password with which its
\* decryption fails, each pair for another cause: a wrong password (which
\* shows as bad padding or as bytes that do not parse) under the modern and
\* under the legacy scheme, an unknown algorithm, a salt that is not specified
FailingCases ==
    {<<"pbes2 safe", <<>>>>, <<"3des safe", <<>>>>,
     <<"other alg safe", FilePassword>>, <<"other salt safe", FilePassword>>}
\* what the accessor returns in the failing case c
OutcomeOf(c, op) ==
    LET f == CHOOSE g \in Files : g.name = c[1]
    IN Accessor(op, PFX_parse(f.der)[2], c[2])

\* C13: the accessors do not reveal why decryption failed: on two PFX values
\* that differ only in the cause of the failure (wrong password, unsupported
\* or unknown algorithm, bad padding, non-specified PBKDF2 salt) bags,
\* cert_x509_bags, cert_sdsi_bags and key_bags return the same outcome, the
\* same error value, under the modern and under the legacy scheme.
C13_SameFailureOutcome ==
    (/\ origin = "file" /\ args[1] = "File"
     /\ ret.op \in {"bags", "cert_x509_bags", "cert_sdsi_bags", "key_bags"}
     /\ <<args[2], ret.password>> \in FailingCases)
        => \A c \in FailingCases : OutcomeOf(c, ret.op) = ret.val
\* the wrong password under PBES2 aborts, while the salt that is not
\* specified gives Err(Invalid)
C13_Witness ==
    /\ origin = "file" /\ args = <<"File", "pbes2 safe">>
    /\ Called("key_bags") /\ ret.password = <<>> /\ ret.val = Panic("failed")
    /\ OutcomeOf(<<"other salt safe", FilePassword>>, "key_bags") = Invalid

\* the two safes of a built PFX as a reader finds them: the cert-bag bundle
\* (the EncryptedContentInfo) and the shrouded key (the EncryptedPrivateKeyInfo)
BuiltContents == parse_ber(built[2].auth_safe[2], "ContentInfos_read")[2]
BuiltBundle == BuiltContents[1][2].encrypted_content_info
BuiltKey == parse_ber(BuiltContents[2][2], "SafeBags_read")[2][1].bag[2]
JustBuilt == IsSome(built) /\ der = None

\* C14: in a PFX built with the legacy pair the shrouded key bag's encryption
\* algorithm is PbeWithSHAAnd3KeyTripleDESCBC and the cert-bag bundle's is
\* PbewithSHAAnd40BitRC2CBC, each with an 8-byte salt and 2048 iterations; the
\* legacy key deriver's derive_key returns None for every password and has no
\* influence on either ciphertext (each is made with the key and IV that the
\* PKCS12-SHA KDF gives for the BMP password and the salt of its identifier).
C14_LegacyAlgorithms ==
    JustBuilt /\ PipelineOf(args) = Legacy =>
        LET kalg == BuiltKey.encryption_algorithm
            balg == BuiltBundle.content_encryption_algorithm
            kct == BuiltKey.encrypted_data
            bct == BuiltBundle.encrypted_content
            pw == bmp_string(args[2].password)
            deriver == KeyDeriver_default(args[2].KDF, args[2].rnd, 1)[2]
        IN /\ kalg[1] = "PbeWithSHAAnd3KeyTripleDESCBC"
           /\ BLen(kalg[2].salt) = 8 /\ kalg[2].iterations = 2048
           /\ balg[1] = "PbewithSHAAnd40BitRC2CBC"
           /\ BLen(balg[2].salt) = 8 /\ balg[2].iterations = 2048
           /\ \A p \in PwBytes : derive_key(args[2].KDF, deriver, p) = None
           /\ kct[1] = "enc" /\ kct[2] = "TdesEde3" /\ kct[5] = args[2].key_der
           /\ kct[3] = pbepkcs12sha("Sha1", pw, kalg[2].salt, 2048, 1, 24)
           /\ kct[4] = pbepkcs12sha("Sha1", pw, kalg[2].salt, 2048, 2, 8)
           /\ bct[1] = "enc" /\ bct[2] = "Rc2"
           /\ bct[3] = pbepkcs12sha("Sha1", pw, balg[2].salt, 2048, 1, 5)
           /\ bct[4] = pbepkcs12sha("Sha1", pw, balg[2].salt, 2048, 2, 8)
\* a legacy build with the password "a" and two CAs; the salt the deriver drew
\* is not the salt of either identifier
C14_Witness ==
    /\ JustBuilt /\ PipelineOf(args) = Legacy
    /\ args[2].password = <<97>> /\ Len(args[2].ca_der_list) = 2
    /\ BuiltKey.encryption_algorithm[1] = "PbeWithSHAAnd3KeyTripleDESCBC"
    /\ BuiltBundle.content_encryption_algorithm[1] = "PbewithSHAAnd40BitRC2CBC"
    /\ KeyDeriver_default(args[2].KDF, args[2].rnd, 1)[2][2].salt
          \notin {BuiltKey.encryption_algorithm[2].salt,
                  BuiltBundle.content_encryption_algorithm[2].salt}


\* the identifier the modern pair emits, with the given salt and IV
ModernAlg(salt, iv) ==
    Pbes2([key_derivation_function |->
               Pbkdf2Alg([salt |-> Specified(salt), iteration_count |-> 2048,
                          key_length |-> None, prf |-> HmacWithSha256(None)]),
           encryption_scheme |-> AesCbcPad(iv)])
\* alg is the modern identifier with a 16-byte salt and a 16-byte IV, and ct
\* was made with AES-256 under the 32-byte PBKDF2-HMAC-SHA-256 key of password
IsModernEncryption(alg, ct, password) ==
    /\ alg[1] = "Pbes2"
    /\ alg[2].key_derivation_function[1] = "Pbkdf2"
    /\ LET q == alg[2].key_derivation_function[2]
           scheme == alg[2].encryption_scheme
       IN /\ q.salt[1] = "Specified" /\ BLen(q.salt[2]) = 16
          /\ scheme[1] = "AesCbcPad" /\ BLen(scheme[2]) = 16
          /\ alg = ModernAlg(q.salt[2], scheme[2])
          /\ ct[1] = "enc" /\ ct[2] = "Aes256" /\ ct[4] = scheme[2]
          /\ ct[3] = pbkdf2_hmac("Sha256", password, q.salt[2], 2048, 32)
          /\ BLen(ct[3]) = 32

\* C15: in a PFX built with the modern pair both the shrouded key bag and the
\* cert-bag bundle carry Pbes2 { Pbkdf2 { salt = Specified(16 bytes),
\* iteration_count = 2048, key_length absent, prf = HmacWithSha256 },
\* AesCbcPad(16-byte IV) }, and the key each ciphertext was made with is the
\* 32-byte PBKDF2-HMAC-SHA-256 key of the raw password.
C15_ModernAlgorithms ==
    JustBuilt /\ PipelineOf(args) = Modern =>
        /\ IsModernEncryption(BuiltKey.encryption_algorithm, BuiltKey.encrypted_data,
                              as_bytes(args[2].password))
        /\ IsModernEncryption(BuiltBundle.content_encryption_algorithm,
                              BuiltBundle.encrypted_content, as_bytes(args[2].password))
\* a modern build with the password "a" and one CA, the key bag and the
\* bundle under different salts and IVs
C15_Witness ==
    /\ JustBuilt /\ PipelineOf(args) = Modern
    /\ args[2].password = <<97>> /\ Len(args[2].ca_der_list) = 1
    /\ BuiltKey.encryption_algorithm[1] = "Pbes2"
    /\ BuiltBundle.content_encryption_algorithm[1] = "Pbes2"
    /\ BuiltKey.encryption_algorithm # BuiltBundle.content_encryption_algorithm
    /\ BuiltKey.encrypted_data[5] = args[2].key_der


\* the size bytes the k-th read of the stream rnd returned
Drawn(rnd, k, size) == Raw(Strict([i \in 1..size |-> rnd[k]]))
\* the identifier and ciphertext of data under the pair p, the password and the
\* bytes of the reads ks (IV) and kk (salt), written out from the arguments alone
ExpectedEncryption(p, a, data, ks, kk, forKey) ==
    IF p = Modern
    THEN LET salt == Drawn(a.rnd, kk, 16)
             iv == Drawn(a.rnd, ks, 16)
         IN [alg |-> ModernAlg(salt, iv),
             ct |-> <<"enc", "Aes256",
                      pbkdf2_hmac("Sha256", as_bytes(a.password), salt, 2048, 32), iv, data>>]
    ELSE LET salt == Drawn(a.rnd, kk, 8)
             pw == bmp_string(a.password)
             param == [salt |-> salt, iterations |-> 2048]
         IN IF forKey
            THEN [alg |-> PbeWithSHAAnd3KeyTripleDESCBC(param),
                  ct |-> <<"enc", "TdesEde3", pbepkcs12sha("Sha1", pw, salt, 2048, 1, 24),
                           pbepkcs12sha("Sha1", pw, salt, 2048, 2, 8), data>>]
            ELSE [alg |-> PbewithSHAAnd40BitRC2CBC(param),
                  ct |-> <<"enc", "Rc2", pbepkcs12sha("Sha1", pw, salt, 2048, 1, 5),
                           pbepkcs12sha("Sha1", pw, salt, 2048, 2, 8), data>>]
\* the bytes to_der() gives for a build from the arguments a (the random
\* stream a.rnd among them), as a function of a alone
ExpectedDer(a) ==
    LET p == <<a.Encryptor, a.KDF>>
        attrs == <<FriendlyName(a.name), LocalKeyId(sha("Sha1", a.cert_der))>>
        k == ExpectedEncryption(p, a, a.key_der, 1, 2, TRUE)
        key_bag == [bag |-> Pkcs8ShroudedKeyBag([encryption_algorithm |-> k.alg,
                                                 encrypted_data |-> k.ct]),
                    attributes |-> attrs]
        cert_bags == <<[bag |-> CertBag(X509(a.cert_der)), attributes |-> attrs]>>
                     \o Strict([j \in 1..Len(a.ca_der_list) |->
                                   [bag |-> CertBag(X509(a.ca_der_list[j])), attributes |-> <<>>]])
        b == ExpectedEncryption(p, a,
                 construct_der(write_sequence_of(
                     Strict([j \in 1..Len(cert_bags) |-> Apply("SafeBag_write", <<cert_bags[j]>>)]))),
                 3, 4, FALSE)
        contents == construct_der(write_sequence_of(
                        <<ContentInfo_write(EncryptedData([encrypted_content_info |->
                              [content_encryption_algorithm |-> b.alg,
                               encrypted_content |-> b.ct]])),
                          ContentInfo_write(Data(construct_der(write_sequence_of(
                              <<Apply("SafeBag_write", <<key_bag>>)>>))))>>))
        salt == Drawn(a.rnd, 5, 8)
        mac == hmac("Sha1", pbepkcs12sha("Sha1", bmp_string(a.password), salt, 2048, 3, 20),
                    contents)
    IN construct_der(Apply("PFX_write", <<[version |-> 3,
                                         auth_safe |-> Data(contents),
                                         mac_data |-> Some([mac |-> [digest_algorithm |-> Sha1,
                                                                     digest |-> mac],
                                                            salt |-> salt,
                                                            iterations |-> 2048])]>>))

\* C16: the to_der() output of a PFX built by PFX::new or new_with_cas is a
\* function of the arguments (cert, key, CA list, password, name, pipeline) and
\* of the bytes the random source returned, and of nothing else: two runs with
\* the same arguments and the same random bytes give the same bytes, whatever
\* the build profile and the rest of the environment.
C16_DeterministicDer ==
    FromBuild /\ IsSome(der) => der[2] = ExpectedDer(args[2])
\* a debug-build run of the modern pair with the password "a" and one CA has
\* written its DER
C16_Witness ==
    /\ FromBuild /\ IsSome(der) /\ debug_assertions /\ padLuck
    /\ PipelineOf(args) = Modern /\ args[2].password = <<97>>
    /\ Len(args[2].ca_der_list) = 1
    /\ der[2] = ExpectedDer(args[2])


\* RFC 7292 appendix B.2, written from the RFC's steps.
\* H applied r times (r >= 1)
RECURSIVE RfcHash(_, _, _)
RfcHash(H, m, r) == IF r = 1 THEN sha_bytes(H, m) ELSE sha_bytes(H, RfcHash(H, m, r - 1))
\* m + n + carry on big-endian integers of equal length, computed on halves
\* (the low half first, its carry into the high half):
\* <<the sum mod 2^(8 * Len(m)), the carry out>>
RECURSIVE AddBE(_, _, _)
AddBE(m, n, carry) ==
    IF Len(m) = 1
    THEN <<<<(m[1] + n[1] + carry) % 256>>, (m[1] + n[1] + carry) \div 256>>
    ELSE LET h == Len(m) \div 2
             lo == AddBE(SubSeq(m, h + 1, Len(m)), SubSeq(n, h + 1, Len(n)), carry)
         IN IF lo[2] = 0
            THEN LET hi == AddBE(SubSeq(m, 1, h), SubSeq(n, 1, h), 0)
                 IN <<hi[1] \o lo[1], hi[2]>>
            ELSE LET hi == AddBE(SubSeq(m, 1, h), SubSeq(n, 1, h), 1)
                 IN <<hi[1] \o lo[1], hi[2]>>
\* step 6C: every v-byte block I_j of I becomes (I_j + B + 1) mod 2^v
RfcNextI(I, B) ==
    Concat(Strict([j \in 1..(Len(I) \div V) |->
                      AddBE(SubSeq(I, (j - 1) * V + 1, j * V), B, 1)[1]]))
\* steps 6 and 7: A_1 || ... || A_c
RECURSIVE RfcBlocks(_, _, _, _, _)
RfcBlocks(H, D, I, r, c) ==
    IF c = 0 THEN <<>>
    ELSE LET A == RfcHash(H, D \o I, r)
         IN A \o RfcBlocks(H, D, RfcNextI(I, CycleTake(A, V)), r, c - 1)
RfcPad(s) == CycleTake(s, V * ((Len(s) + V - 1) \div V))
RfcKdf(H, pass, salt, r, id, size) ==
    LET u == DigestLen(H)
        c == (size + u - 1) \div u
    IN SubSeq(RfcBlocks(H, Strict([k \in 1..V |-> id]), RfcPad(salt) \o RfcPad(pass), r, c),
              1, size)

\* C18: for H in {SHA-1, SHA-256} and every password, salt (the empty one
\* too), iterations >= 1, id and size (0 too), pbepkcs12sha<H> returns exactly
\* size bytes, the first size bytes of A1 || ... || Ac of RFC 7292 B.2 with
\* c = ceil(size / digest length): each Aj is H applied iterations times to
\* D || I, and between blocks every 64-byte block of I becomes
\* (block + B + 1) mod 2^512, no carry crossing a block and Len(I) unchanged.
C18_KdfIsRfc7292 ==
    x[1] = "pbepkcs12sha" =>
        /\ Len(y) = x[2].size
        /\ y = RfcKdf(x[2].D, x[2].pass, x[2].salt, x[2].iterations, x[2].id, x[2].size)
\* SHA-256, 41 bytes of output from an I of two 64-byte blocks in which the
\* first update of the last block carries out of its top byte and that of the
\* first block does not
C18_Witness ==
    /\ x[1] = "pbepkcs12sha" /\ x[2].D = "Sha256" /\ x[2].size = 41
    /\ x[2].salt = <<0, 0>> /\ x[2].pass = <<255, 254, 253>> /\ x[2].iterations = 2
    /\ Len(y) = 41
    /\ LET I == RfcPad(x[2].salt) \o RfcPad(x[2].pass)
           B == CycleTake(RfcHash("Sha256", Strict([k \in 1..V |-> x[2].id]) \o I, 2), V)
       IN /\ Len(I) = 2 * V
          /\ I[V + 1] + B[1] >= 256
          /\ I[1] + B[1] + 1 < 256


\* UTF-16 big endian of one Unicode scalar value, from the definition of
\* UTF-16: two bytes, or the four bytes of a surrogate pair
Utf16BE(c) ==
    IF c < 65536 THEN <<c \div 256, c % 256>>
    ELSE LET v == c - 65536
             hi == 55296 + (v \div 1024)
             lo == 56320 + (v % 1024)
         IN <<hi \div 256, hi % 256, lo \div 256, lo % 256>>
CodeUnits(s) == Cardinality({k \in 1..Len(s) : s[k] < 65536})
                + 2 * Cardinality({k \in 1..Len(s) : s[k] >= 65536})

\* C19: bmp_string(s) is the UTF-16 big-endian encoding of s (high byte
\* first, surrogate pairs included) followed by exactly two zero bytes; its
\* length is 2 * (number of UTF-16 code units) + 2, bmp_string("") = [0, 0],
\* and the two zero bytes are appended also when s ends in U+0000.
C19_BmpString ==
    x[1] = "bmp_string" =>
        LET s == x[2].s
        IN /\ y = Raw(Concat(Strict([k \in 1..Len(s) |-> Utf16BE(s[k])])) \o <<0, 0>>)
           /\ BLen(y) = 2 * CodeUnits(s) + 2
           /\ s = <<>> => y = Raw(<<0, 0>>)
           /\ s = Beavis => y = Raw(<<0, 66, 0, 101, 0, 97, 0, 118, 0, 105, 0, 115, 0, 0>>)
\* U+1F600 followed by U+0000: a surrogate pair, the character's two zero
\* bytes and the terminator's two
C19_Witness ==
    /\ x[1] = "bmp_string" /\ x[2].s = <<128512, 0>>
    /\ y = Raw(<<216, 61, 222, 0, 0, 0, 0, 0>>)


\* verify_mac with each KDF given the password in the stated encoding: the
\* content of auth_safe is opened from the caller's raw bytes (BMP-encoded
\* once for the legacy PBE, as they are for PBKDF2) and the MAC key is derived
\* from the BMP password
VerifyMacEncoded(p, password) ==
    LET data == ContentInfo_data(p.auth_safe, as_bytes(password))
    IN IF IsPanic(data) THEN data
       ELSE IF IsSome(data)
       THEN Apply("MacData_verify_mac", <<p.mac_data[2], data[2], bmp_string(password)>>)
       ELSE Bool(FALSE)

\* C20: on every public entry point and for every shape of auth_safe the
\* password that reaches the PKCS12-SHA KDF (legacy PBE and MAC) is
\* bmp_string of the caller's password applied once, and the password that
\* reaches PBKDF2 is the caller's raw UTF-8 bytes.
C20_PasswordEncoding ==
    \* PFX::new, new_with_cas
    /\ JustBuilt /\ PipelineOf(args) = Legacy =>
          /\ BuiltKey.encrypted_data[3] =
                pbepkcs12sha("Sha1", bmp_string(args[2].password),
                             BuiltKey.encryption_algorithm[2].salt, 2048, 1, 24)
          /\ BuiltBundle.encrypted_content[3] =
                pbepkcs12sha("Sha1", bmp_string(args[2].password),
                             BuiltBundle.content_encryption_algorithm[2].salt, 2048, 1, 5)
    /\ JustBuilt /\ PipelineOf(args) = Modern =>
          BuiltKey.encrypted_data[3] =
             pbkdf2_hmac("Sha256", as_bytes(args[2].password),
                         BuiltKey.encryption_algorithm[2].key_derivation_function[2].salt[2],
                         2048, 32)
    /\ JustBuilt =>
          LET m == built[2].mac_data[2]
          IN m.mac.digest =
                hmac("Sha1", pbepkcs12sha("Sha1", bmp_string(args[2].password), m.salt, 2048, 3, 20),
                     built[2].auth_safe[2])
    \* bags, cert_x509_bags, cert_sdsi_bags, key_bags: a file whose auth_safe
    \* was encrypted under the stated encoding opens with its password
    /\ IsOk(pfx) /\ args \in {<<"File", "3des safe">>, <<"File", "pbes2 safe">>}
       /\ ret.op \in {"bags", "cert_x509_bags", "cert_sdsi_bags", "key_bags"}
       /\ ret.password = FilePassword
          => IsOk(ret.val)
    \* verify_mac
    /\ IsOk(pfx) /\ Called("verify_mac") /\ IsSome(pfx[2].mac_data)
          => ret.val = VerifyMacEncoded(pfx[2], ret.password)
\* the file whose auth_safe is EncryptedData under the legacy triple DES: its
\* bags open with the password, and verify_mac with the same password is false
C20_Witness ==
    /\ IsOk(pfx) /\ args = <<"File", "3des safe">>
    /\ Called("verify_mac") /\ ret.password = FilePassword
    /\ ret.val = Bool(FALSE)
    /\ IsOk(Apply("bags", <<pfx[2], FilePassword>>))
    /\ VerifyMacEncoded(pfx[2], FilePassword) = Bool(TRUE)


IsShrouded(sb) == sb.bag[1] = "Pkcs8ShroudedKeyBag"
\* C21: when key_bags(password) returns Ok, the result has one entry for each
\* Pkcs8ShroudedKeyBag among bags(password), in the same order, each the
\* decryption of that bag's encrypted_data; a shrouded key bag whose
\* decryption fails is not left out of an Ok result.
C21_KeyBagsComplete ==
    IsOk(pfx) /\ Called("key_bags") /\ IsOk(ret.val) =>
        LET b == Apply("bags", <<pfx[2], ret.password>>)
            shrouded == SelectSeq(b[2], IsShrouded)
        IN /\ IsOk(b)
           /\ Len(ret.val[2]) = Len(shrouded)
           /\ \A k \in 1..Len(shrouded) :
                 Some(ret.val[2][k]) = EncryptedPrivateKeyInfo_decrypt(shrouded[k].bag[2],
                                                                       as_bytes(ret.password))
\* the file with two shrouded keys: bags gives both bags, key_bags with the
\* first key's password gives Ok with the first key only
C21_Witness ==
    /\ IsOk(pfx) /\ args = <<"File", "two keys">>
    /\ Called("key_bags") /\ ret.password = FilePassword
    /\ ret.val = Ok(<<Key1>>)
    /\ Len(SelectSeq(Apply("bags", <<pfx[2], FilePassword>>)[2], IsShrouded)) = 2


\* what bags(password) is to return: the SafeBags of the inner ContentInfos in
\* the order met, or the error of the first inner ContentInfo that yields no
\* data or does not parse
ExpectedBags(p, password) ==
    LET outer == ContentInfo_data(p.auth_safe, as_bytes(password))
        contents == parse_ber(outer[2], "ContentInfos_read")
        n == Len(contents[2])
        inner == Strict([k \in 1..n |-> ContentInfo_data(contents[2][k], as_bytes(password))])
        read == Strict([k \in 1..n |-> IF IsSome(inner[k])
                                       THEN parse_ber(inner[k][2], "SafeBags_read")
                                       ELSE Invalid])
        bad == {k \in 1..n : ~IsOk(read[k])}
    IN IF ~IsSome(outer) THEN Invalid
       ELSE IF ~IsOk(contents) THEN contents
       ELSE IF bad # {} THEN read[CHOOSE k \in bad : \A j \in bad : k <= j]
       ELSE Ok(Concat(Strict([k \in 1..n |-> read[k][2]])))
\* the payloads of the certificate bags of one kind, in order
CertPayloads(safe_bags, kind) ==
    LET hits == SelectSeq(safe_bags, LAMBDA sb : sb.bag[1] = "CertBag" /\ sb.bag[2][1] = kind)
    IN Strict([k \in 1..Len(hits) |-> hits[k].bag[2][2]])

\* C22: bags(password) returns the SafeBags of all inner ContentInfos in
\* encounter order and returns Err as soon as an inner ContentInfo yields no
\* data (OtherContext, failed decryption) or fails to parse; cert_x509_bags
\* and cert_sdsi_bags return the X509 resp. SDSI payloads of bags(password)
\* in that order and are Err exactly when bags is Err.
C22_BagsInOrder ==
    IsOk(pfx) =>
        LET e == ExpectedBags(pfx[2], ret.password)
        IN /\ Called("bags") => ret.val = e
           /\ Called("cert_x509_bags") =>
                 ret.val = IF IsOk(e) THEN Ok(CertPayloads(e[2], "X509")) ELSE e
           /\ Called("cert_sdsi_bags") =>
                 ret.val = IF IsOk(e) THEN Ok(CertPayloads(e[2], "SDSI")) ELSE e
\* a modern build opened with another password: the inner EncryptedData does
\* not decrypt and bags aborts instead of returning Err
C22_Witness ==
    /\ IsOk(pfx) /\ FromBuild /\ PipelineOf(args) = Modern
    /\ Called("bags") /\ ret.password # args[2].password
    /\ IsPanic(ret.val)
    /\ ExpectedBags(pfx[2], ret.password) = Invalid


\* the attributes of sb are exactly FriendlyName(n) and LocalKeyId(id), and
\* the two accessors find them
HasNameAndId(sb, n, id) ==
    /\ Len(sb.attributes) = 2
    /\ {sb.attributes[1], sb.attributes[2]} = {FriendlyName(n), LocalKeyId(id)}
    /\ friendly_name(sb) = Some(n)
    /\ local_key_id(sb) = Some(id)
\* C23: in a PFX built with name n and certificate c, the key bag and the
\* primary cert bag each carry exactly FriendlyName(n) and LocalKeyId(SHA1(c))
\* and every CA bag carries no attributes; after to_der and parse,
\* friendly_name() and local_key_id() return Some(n) and Some(SHA1(c)) on the
\* key bag and the primary cert bag, and None on every CA bag.
C23_BagAttributes ==
    IsOk(pfx) /\ FromBuild /\ Called("bags") /\ ret.password = args[2].password =>
        LET a == args[2]
            cas == Len(a.ca_der_list)
            b == ret.val[2]
            id == sha("Sha1", a.cert_der)
        IN /\ IsOk(ret.val) /\ Len(b) = cas + 2
           /\ b[1].bag = CertBag(X509(a.cert_der)) /\ HasNameAndId(b[1], a.name, id)
           /\ IsShrouded(b[cas + 2]) /\ HasNameAndId(b[cas + 2], a.name, id)
           /\ \A k \in 2..(cas + 1) :
                 /\ b[k].bag = CertBag(X509(a.ca_der_list[k - 1]))
                 /\ b[k].attributes = <<>>
                 /\ friendly_name(b[k]) = None /\ local_key_id(b[k]) = None
\* a legacy build with the name U+1F600 and one CA, read back
C23_Witness ==
    /\ IsOk(pfx) /\ FromBuild /\ PipelineOf(args) = Legacy
    /\ args[2].name = <<128512>> /\ Len(args[2].ca_der_list) = 1
    /\ Called("bags") /\ ret.password = args[2].password /\ IsOk(ret.val)
    /\ friendly_name(ret.val[2][1]) = Some(<<128512>>)
    /\ local_key_id(ret.val[2][3]) = Some(sha("Sha1", Cert1))
    /\ friendly_name(ret.val[2][2]) = None


\* C24: PKCS12Attribute::parse fails with the Invalid error when a
\* FriendlyName or LocalKeyId attribute has an empty value set, and succeeds
\* with an empty data list for an attribute of any other OID with an empty
\* value set.
C24_EmptyValueSet ==
    x[1] = "PKCS12Attribute_parse" /\ x[2].vals = <<>> =>
        y = IF x[2].oid \in {"OID_FRIENDLY_NAME", "OID_LOCAL_KEY_ID"}
            THEN Invalid
            ELSE Ok(OtherAttribute(x[2].oid, <<>>))
\* a LocalKeyId attribute with an empty value set has been refused
C24_Witness ==
    /\ x[1] = "PKCS12Attribute_parse" /\ x[2].oid = "OID_LOCAL_KEY_ID" /\ x[2].vals = <<>>
    /\ y = Invalid


\* any accessor applied to the PFX p
AnyAccessor(op, p, password) ==
    IF op = "verify_mac" THEN Apply("verify_mac", <<p, password>>) ELSE Accessor(op, p, password)
\* C25: PFX::parse performs no decryption and no MAC check: its result depends
\* only on the input bytes and it succeeds on a structurally valid PFX
\* whatever the password, the ciphertext or the MAC digest are; bags,
\* cert_x509_bags, cert_sdsi_bags, key_bags, verify_mac and to_der leave the
\* PFX value unchanged, so repeating any of them with the same password
\* returns the same result.
C25_ParseAndFrame ==
    origin \in {"built", "file"} /\ pfx # NotParsed =>
        \* every file and every built PFX is structurally valid
        /\ IsOk(pfx)
        \* the value is the one parsed from the bytes, after any calls too
        /\ pfx = PFX_parse(der[2])
        \* the result held is the result of the same call made again
        /\ ret # NoCall => ret.val = AnyAccessor(ret.op, pfx[2], ret.password)
        \* to_der of the value at hand
        /\ x # NoValue /\ x[1] = "PFX" => x[2] = pfx[2]
\* the file whose MacData holds a digest of another algorithm and bytes that
\* are no MAC of the content: parsed, and its bags read without a password
C25_Witness ==
    /\ origin = "file" /\ args = <<"File", "md5 mac">> /\ IsOk(pfx)
    /\ pfx = PFX_parse(der[2])
    /\ Called("bags") /\ IsOk(ret.val)
    /\ ret.val = AnyAccessor("bags", pfx[2], ret.password)


\* the ciphertext ct was made with the key (and IV) that the parameters
\* written in alg give for the password; keylen is the legacy cipher's key size
MadeWithWritten(alg, ct, password, keylen) ==
    /\ ct[1] = "enc"
    /\ IF alg[1] = "Pbes2"
       THEN LET q == alg[2].key_derivation_function[2]
            IN /\ ct[3] = pbkdf2_hmac("Sha256", as_bytes(password), q.salt[2],
                                      q.iteration_count, 32)
               /\ ct[4] = alg[2].encryption_scheme[2]
       ELSE /\ ct[3] = pbepkcs12sha("Sha1", bmp_string(password), alg[2].salt,
                                    alg[2].iterations, 1, keylen)
            /\ ct[4] = pbepkcs12sha("Sha1", bmp_string(password), alg[2].salt,
                                    alg[2].iterations, 2, 8)
\* C26: in every PFX the builder produces, for the key bag and for the
\* cert-bag bundle separately, the salt, iteration count and IV written in the
\* algorithm identifier are the values the key was derived and the ciphertext
\* made with; in the legacy pipeline the salt drawn by the key deriver's
\* default() appears nowhere in the output; key bag and bundle each use their
\* own freshly drawn salt (and IV in the modern pipeline).
C26_WrittenParametersUsed ==
    JustBuilt =>
        LET a == args[2]
            kalg == BuiltKey.encryption_algorithm
            balg == BuiltBundle.content_encryption_algorithm
            mac == built[2].mac_data[2]
        IN /\ MadeWithWritten(kalg, BuiltKey.encrypted_data, a.password, 24)
           /\ MadeWithWritten(balg, BuiltBundle.encrypted_content, a.password, 5)
           /\ PipelineOf(args) = Legacy =>
                 /\ kalg[2].salt = Drawn(a.rnd, 2, 8)
                 /\ balg[2].salt = Drawn(a.rnd, 4, 8)
                 /\ {Drawn(a.rnd, 1, 8), Drawn(a.rnd, 3, 8)}
                       \cap {kalg[2].salt, balg[2].salt, mac.salt} = {}
                 /\ PFX_to_der(built[2]) = ExpectedDer(a)
           /\ PipelineOf(args) = Modern =>
                 /\ kalg[2].encryption_scheme[2] = Drawn(a.rnd, 1, 16)
                 /\ kalg[2].key_derivation_function[2].salt[2] = Drawn(a.rnd, 2, 16)
                 /\ balg[2].encryption_scheme[2] = Drawn(a.rnd, 3, 16)
                 /\ balg[2].key_derivation_function[2].salt[2] = Drawn(a.rnd, 4, 16)
\* a modern build with two CAs: the bundle's IV and salt are not the key bag's
C26_Witness ==
    /\ JustBuilt /\ PipelineOf(args) = Modern /\ Len(args[2].ca_der_list) = 2
    /\ MadeWithWritten(BuiltBundle.content_encryption_algorithm,
                       BuiltBundle.encrypted_content, args[2].password, 5)
    /\ BuiltKey.encryption_algorithm[2].encryption_scheme
          # BuiltBundle.content_encryption_algorithm[2].encryption_scheme
    /\ BuiltKey.encryption_algorithm[2].key_derivation_function[2].salt
          # BuiltBundle.content_encryption_algorithm[2].key_derivation_function[2].salt


\* C27: PFX::new and PFX::new_with_cas report every failure of a build step
\* as the value None and never abort: a failed read of the random source (for
\* an IV, a PBKDF2 salt, a legacy salt or the MAC salt), a failed key
\* derivation and a failed encryption of the cert-bag bundle each yield None,
\* like a failed encryption of the key bag.
C27_BuildFailureIsNone ==
    origin = "built" =>
        /\ ~IsPanic(built)
        /\ (\E k \in 1..NDraws : args[2].rnd[k] = RandFail) => built = None
        /\ PipelineOf(args) \notin {Modern, Legacy} => built = None
\* the read for the MAC salt fails in a modern build: the build aborts
C27_Witness ==
    /\ origin = "built" /\ PipelineOf(args) = Modern
    /\ args[2].rnd[5] = RandFail /\ \A k \in 1..4 : args[2].rnd[k] # RandFail
    /\ built = Panic("unwrap")

=============================================================================
